---- MODULE Spec2Model ----
(***************************************************************************)
(* Synchronisation and caching core of the customer-support agent:         *)
(*   core/redis_client.py   RedisClient (JSON values over a key-value      *)
(*                          store, per-operation fault handling)           *)
(*   services/cache.py      CacheService (key conventions, namespace TTLs) *)
(*   services/customer.py   CustomerService (cache-aside session lookup)   *)
(*   services/graph.py      GraphService (graph projection, cached graph   *)
(*                          queries)                                       *)
(*   services/etl.py        ETLService (full / real-time sync)             *)
(*   core/neo4j_client.py   Neo4jClient.execute_query                      *)
(***************************************************************************)
EXTENDS Integers, Sequences, FiniteSets, TLC

VARIABLES
    now,        \* wall clock of the key-value store, in seconds
    store,      \* Redis keyspace: key -> [val: JSON text, exp: expiry time]
    lastOp,     \* the cache operation that completed last, with its result
    written,    \* history: key -> what the last successful set stored
    inv,        \* the caller inside invalidate_pattern, between KEYS and DEL
    faultsOn,   \* whether the cache transport may fail in this scenario
    customers,  \* relational table customers, in heap order
    graph,      \* graph store: [customers: the Customer nodes]
    reader,     \* a call of CustomerService.get_customer_by_session
    updater,    \* a call of CustomerService.update_customer
    simReader,  \* a call of GraphService.find_similar_customers
    graphSync,  \* a call of GraphService.sync_customer_to_graph
    hist,       \* history: per-entity mutation epochs and the epoch each
                \* cache entry was read at
    fullSync,   \* a run of ETLService.full_sync_customers
    rt,         \* the last call of ETLService.sync_customer_realtime
    phase,      \* history: full sync, then a row change, then its real-time sync
    convs,      \* relational store: the conversations table with its messages
    convSync,   \* a run of ETLService.full_sync_conversations
    rtConv,     \* the last call of ETLService.sync_conversation_realtime
    inc,        \* the calls of ETLService.incremental_sync, one per caller
    sys,        \* the calls of ETLService.full_system_sync, one per operator
    integrity,  \* the last report of ETLService.validate_sync_integrity
    syncStatus, \* the last result of ETLService.get_sync_status
    worker      \* the ETLWorker process: its flag and its two loop tasks

kvVars == <<now, store, lastOp, written>>

asideVars == <<faultsOn, customers, graph, reader, updater, simReader, graphSync, hist>>

syncVars == <<fullSync, rt, phase, convs, convSync, rtConv>>

engineVars == <<inc, sys, integrity, syncStatus, worker>>

vars == <<now, store, lastOp, written, inv, faultsOn, customers, graph,
          reader, updater, simReader, graphSync, hist, fullSync, rt, phase,
          convs, convSync, rtConv, inc, sys, integrity, syncStatus, worker>>

----------------------------------------------------------------------------
(* Bounds of the model. *)

MaxTime == 3600
TickStep == 1800
MaxUpdates == 1
MaxMerges == 1
MaxRows == 3
MaxBatch == 2
MaxConvs == 2

----------------------------------------------------------------------------
(* Python values, truthiness and the json module. *)

PyNone == [t |-> "none"]
PyInt(n) == [t |-> "int", v |-> n]
PyStr(cs) == [t |-> "str", v |-> cs]
PyList(xs) == [t |-> "list", v |-> xs]
PyDatetime(n) == [t |-> "datetime", v |-> n]

\* bool(x) of a Python value, as used by `if value:` and `if expire:`.
Truthy(x) ==
    CASE x.t = "none" -> FALSE
      [] x.t = "int" -> x.v # 0
      [] x.t = "str" -> Len(x.v) > 0
      [] x.t = "list" -> Len(x.v) > 0
      [] OTHER -> TRUE

Digits == <<"0", "1", "2", "3", "4", "5", "6", "7", "8", "9">>

IsDigit(c) == \E i \in 1..10 : Digits[i] = c

DigitValue(c) == (CHOOSE i \in 1..10 : Digits[i] = c) - 1

\* str(n) for a non-negative int, one character per element.
RECURSIVE StrInt(_)
StrInt(n) ==
    IF n < 10 THEN <<Digits[n + 1]>>
    ELSE StrInt(n \div 10) \o <<Digits[(n % 10) + 1]>>

\* int(text) for a sequence of digit characters.
RECURSIVE IntStr(_)
IntStr(cs) ==
    IF Len(cs) = 1 THEN DigitValue(cs[1])
    ELSE 10 * IntStr(SubSeq(cs, 1, Len(cs) - 1)) + DigitValue(cs[Len(cs)])

\* str(datetime): the text json.dumps falls back to through default=str.
StrDatetime(n) == <<"T">> \o StrInt(n)

RECURSIVE json_dumps(_)

RECURSIVE json_dumps_items(_)
json_dumps_items(xs) ==
    IF xs = <<>> THEN <<>>
    ELSE IF Len(xs) = 1 THEN json_dumps(xs[1])
    ELSE json_dumps(xs[1]) \o <<",">> \o json_dumps_items(Tail(xs))

\* json.dumps(value, default=str)
json_dumps(x) ==
    CASE x.t = "none" -> <<"null">>
      [] x.t = "int" -> StrInt(x.v)
      [] x.t = "str" -> <<"\"">> \o x.v \o <<"\"">>
      [] x.t = "list" -> <<"[">> \o json_dumps_items(x.v) \o <<"]">>
      [] x.t = "datetime" -> json_dumps(PyStr(StrDatetime(x.v)))

\* Index of the first "," of cs at or after i that is outside any brackets,
\* 0 when there is none.
RECURSIVE FirstComma(_, _, _)
FirstComma(cs, i, depth) ==
    IF i > Len(cs) THEN 0
    ELSE IF cs[i] = "," /\ depth = 0 THEN i
    ELSE FirstComma(cs, i + 1,
                    CASE cs[i] = "[" -> depth + 1
                      [] cs[i] = "]" -> depth - 1
                      [] OTHER -> depth)

RECURSIVE json_loads(_)

RECURSIVE json_loads_items(_)
json_loads_items(cs) ==
    IF cs = <<>> THEN <<>>
    ELSE LET c == FirstComma(cs, 1, 0) IN
         IF c = 0 THEN <<json_loads(cs)>>
         ELSE <<json_loads(SubSeq(cs, 1, c - 1))>>
              \o json_loads_items(SubSeq(cs, c + 1, Len(cs)))

\* json.loads(text)
json_loads(cs) ==
    CASE cs = <<"null">> -> PyNone
      [] cs[1] = "\"" -> PyStr(SubSeq(cs, 2, Len(cs) - 1))
      [] cs[1] = "[" -> PyList(json_loads_items(SubSeq(cs, 2, Len(cs) - 1)))
      [] OTHER -> PyInt(IntStr(cs))

\* The values a caller hands to the cache.
PyValues ==
    { PyNone, PyInt(0), PyStr(<<>>), PyList(<<>>),
      PyList(<<PyStr(<<"a">>), PyInt(1)>>), PyDatetime(7) }

\* Values that are JSON values already (no default=str conversion).
IsJSON(x) == x.t # "datetime"

----------------------------------------------------------------------------
(* The key-value store (Redis), one command at a time. *)

NoExpiry == -1

Live(s, t) == [k \in {j \in DOMAIN s : s[j].exp = NoExpiry \/ s[j].exp > t} |-> s[k]]

\* Redis glob: "*" matches any run of characters, anything else itself.
RECURSIVE GlobMatch(_, _)
GlobMatch(p, s) ==
    IF p = <<>> THEN s = <<>>
    ELSE IF Head(p) = "*"
         THEN GlobMatch(Tail(p), s) \/ (s # <<>> /\ GlobMatch(p, Tail(s)))
         ELSE s # <<>> /\ Head(s) = Head(p) /\ GlobMatch(Tail(p), Tail(s))

\* GET key
RedisGET(s, k) == IF k \in DOMAIN s THEN [found |-> TRUE, text |-> s[k].val]
                  ELSE [found |-> FALSE, text |-> <<>>]

\* SET key value / SETEX key seconds value
RedisSET(s, k, text, exp) ==
    [j \in DOMAIN s \cup {k} |-> IF j = k THEN [val |-> text, exp |-> exp] ELSE s[j]]

\* DEL key [key ...]
RedisDEL(s, ks) == [j \in DOMAIN s \ ks |-> s[j]]

\* KEYS pattern
RedisKEYS(s, p) == {k \in DOMAIN s : GlobMatch(p, k)}

----------------------------------------------------------------------------
(* RedisClient: every method is `try: ... except Exception: return default`.*)
(* fault is what the transport does to this call: "none", "transport" (the *)
(* command raises) or "unconnected" (self.client is None).                 *)

Faults == {"none", "transport", "unconnected"}

Outcome(s, ret, raised) == [store |-> s, ret |-> ret, raised |-> raised]

\* get testing the decoded value instead of the raw reply.
RedisClient_get_decoded_truthy(s, key, fault) ==
    IF fault # "none" THEN Outcome(s, PyNone, FALSE)
    ELSE LET value == RedisGET(s, key) IN
         IF value.found /\ Truthy(json_loads(value.text))
         THEN Outcome(s, json_loads(value.text), FALSE)
         ELSE Outcome(s, PyNone, FALSE)

RedisClient_get(s, key, fault) ==
    IF fault # "none" THEN Outcome(s, PyNone, FALSE)
    ELSE LET value == RedisGET(s, key) IN
         IF value.found /\ Len(value.text) > 0
         THEN Outcome(s, json_loads(value.text), FALSE)
         ELSE Outcome(s, PyNone, FALSE)

RedisClient_set(s, t, key, value, expire, fault) ==
    IF fault # "none" THEN Outcome(s, FALSE, FALSE)
    ELSE LET json_value == json_dumps(value) IN
         IF Truthy(expire)
         THEN IF expire.v <= 0 THEN Outcome(s, FALSE, FALSE)
              ELSE Outcome(RedisSET(s, key, json_value, t + expire.v), TRUE, FALSE)
         ELSE Outcome(RedisSET(s, key, json_value, NoExpiry), TRUE, FALSE)

\* delete without its try/except: the transport error reaches the caller.
RedisClient_delete_unguarded(s, key, fault) ==
    IF fault # "none" THEN Outcome(s, FALSE, TRUE)
    ELSE Outcome(RedisDEL(s, {key}), TRUE, FALSE)

RedisClient_delete(s, key, fault) ==
    IF fault # "none" THEN Outcome(s, FALSE, FALSE)
    ELSE Outcome(RedisDEL(s, {key}), TRUE, FALSE)

RedisClient_exists(s, key, fault) ==
    IF fault # "none" THEN Outcome(s, FALSE, FALSE)
    ELSE Outcome(s, key \in DOMAIN s, FALSE)


\* KEYS then DEL are two commands (two awaits); fault strikes the first,
\* faultDel the second.
invalidate_pattern_keys(s, pattern, fault) ==
    IF fault # "none" THEN [ok |-> FALSE, keys |-> {}]
    ELSE [ok |-> TRUE, keys |-> RedisKEYS(s, pattern)]

invalidate_pattern_del(s, keys, faultDel) ==
    IF keys # {}
    THEN IF faultDel # "none" THEN Outcome(s, FALSE, FALSE)
         ELSE Outcome(RedisDEL(s, keys), TRUE, FALSE)
    ELSE Outcome(s, TRUE, FALSE)

\* The whole method run by one client with nothing in between.
RedisClient_invalidate_pattern(s, pattern, fault, faultDel) ==
    LET found == invalidate_pattern_keys(s, pattern, fault) IN
    IF ~found.ok THEN Outcome(s, FALSE, FALSE)
    ELSE invalidate_pattern_del(s, found.keys, faultDel)

----------------------------------------------------------------------------
(* CacheService: key conventions and namespace TTLs. *)

CUSTOMER_SESSION_TTL == 3600
DOCUMENT_SEARCH_TTL == 1800
GRAPH_RESULTS_TTL == 3600
LLM_RESPONSE_TTL == 600

\* f"customer:session:{session_id}"
SessionKey(session_id) == <<"customer", ":", "session", ":">> \o session_id

\* f"graph:{query_type}:{customer_id}"
GraphKey(query_type, customer_id) ==
    <<"graph", ":">> \o query_type \o <<":">> \o StrInt(customer_id)

\* f"graph:*{customer_id}", the separator before the id forgotten.
GraphPattern_no_separator(customer_id) == <<"graph", ":", "*">> \o StrInt(customer_id)

\* f"graph:*:{customer_id}"
GraphPattern(customer_id) == <<"graph", ":", "*", ":">> \o StrInt(customer_id)

cache_customer_session(s, t, session_id, customer_data, fault) ==
    RedisClient_set(s, t, SessionKey(session_id), customer_data,
                    PyInt(CUSTOMER_SESSION_TTL), fault)

get_cached_customer_session(s, session_id, fault) ==
    RedisClient_get(s, SessionKey(session_id), fault)

invalidate_customer_session(s, session_id, fault) ==
    RedisClient_delete(s, SessionKey(session_id), fault)

cache_graph_results(s, t, customer_id, query_type, results, fault) ==
    RedisClient_set(s, t, GraphKey(query_type, customer_id), results,
                    PyInt(GRAPH_RESULTS_TTL), fault)

get_cached_graph_results(s, customer_id, query_type, fault) ==
    RedisClient_get(s, GraphKey(query_type, customer_id), fault)

----------------------------------------------------------------------------
(* The relational store and the graph store. *)

\* A customers row; attrs stands for the mutable columns (name, email,
\* communication_style, relationship_stage, satisfaction_score).
Row(id, session_id, attrs) ==
    [id |-> id, session_id |-> session_id, attrs |-> attrs, updated_at |-> PyNone]

\* query.first() over the rows at the positions hits
First(table, hits) ==
    IF hits = {} THEN [found |-> FALSE, row |-> Row(0, <<>>, 0)]
    ELSE [found |-> TRUE, row |-> table[CHOOSE i \in hits : \A j \in hits : i <= j]]

\* db.query(Customer).filter(Customer.session_id == session_id).first()
SelectBySession(table, session_id) ==
    First(table, {i \in 1..Len(table) : table[i].session_id = session_id})

\* db.query(Customer).filter(Customer.id == customer_id).first()
SelectById(table, customer_id) ==
    First(table, {i \in 1..Len(table) : table[i].id = customer_id})

\* setattr(customer, field, value) for the fields of updates; db.commit()
UpdateRow(table, id, attrs) ==
    [i \in 1..Len(table) |->
        IF table[i].id = id THEN [table[i] EXCEPT !.attrs = attrs] ELSE table[i]]

\* updated_at = Column(DateTime, onupdate=func.now()) at a commit at time t
Stamp(table, id, t) ==
    [i \in 1..Len(table) |->
        IF table[i].id = id THEN [table[i] EXCEPT !.updated_at = PyDatetime(t)]
        ELSE table[i]]

EmptyGraph == [customers |-> <<>>, conversations |-> <<>>, messages |-> <<>>,
               topics |-> {}, discussed |-> {}, resolutions |-> <<>>]

\* The parameters sync_customer_to_graph binds from customer_data.
CustomerParams(row) == [customer_id |-> row.id, attrs |-> row.attrs]

\* MERGE (c:Customer {customer_id: $customer_id}) with CREATE in its place.
CypherCreateCustomer(g, params, t) ==
    [graph |-> [g EXCEPT !.customers =
                   Append(@, [customer_id |-> params.customer_id,
                              attrs |-> params.attrs, updated_at |-> t])],
     records |-> <<params.customer_id>>]

\* MERGE (c:Customer {customer_id: $customer_id}) SET c.<attribute> = ...,
\* c.updated_at = datetime() RETURN c.customer_id
CypherMergeCustomer(g, params, t) ==
    LET hits == {i \in 1..Len(g.customers) :
                    g.customers[i].customer_id = params.customer_id} IN
    IF hits = {}
    THEN [graph |-> [g EXCEPT !.customers =
                        Append(@, [customer_id |-> params.customer_id,
                                   attrs |-> params.attrs, updated_at |-> t])],
          records |-> <<params.customer_id>>]
    ELSE [graph |-> [g EXCEPT !.customers =
                        [i \in 1..Len(@) |->
                            IF i \in hits
                            THEN [@[i] EXCEPT !.attrs = params.attrs,
                                              !.updated_at = t]
                            ELSE @[i]]],
          records |-> [i \in 1..Cardinality(hits) |-> params.customer_id]]

\* MATCH (c1:Customer {customer_id: $customer_id}) MATCH (c2:Customer)
\* WHERE c1 <> c2 ... WHERE similarity_score > 0 RETURN c2.customer_id, ...
\* (the score is positive when the classification attributes agree).
CypherSimilarCustomers(g, customer_id) ==
    LET me == {i \in 1..Len(g.customers) : g.customers[i].customer_id = customer_id}
        Similar(n) == /\ n.customer_id # customer_id
                      /\ \E i \in me : g.customers[i].attrs = n.attrs
        found == SelectSeq(g.customers, Similar)
    IN [graph |-> g,
        records |-> [i \in 1..Len(found) |->
                        PyList(<<PyInt(found[i].customer_id), PyInt(found[i].attrs)>>)]]

\* Neo4jClient.execute_query: the result of the query, or [] when it fails.
execute_query(g, result, fault) ==
    IF fault # "none" THEN [graph |-> g, records |-> <<>>] ELSE result

\* customer_dict built by get_customer_by_session, as its list of values.
customer_dict(row) == PyList(<<PyInt(row.id), PyInt(row.attrs)>>)

\* No sync has run yet.
NoReport == [kind |-> "none", synced |-> 0, failed |-> 0, batches |-> 0,
             completed |-> FALSE]

NoRun == [pc |-> "idle", batch_size |-> 0, total |-> 0, offset |-> 0,
          stats |-> NoReport, result |-> NoReport,
          log |-> <<>>, dbFault |-> "none", dirty |-> FALSE, reads |-> 0]

NoRealtime == [ret |-> FALSE, faulted |-> FALSE]

NoConvReport == [kind |-> "none", synced |-> 0, failed |-> 0, synced_messages |-> 0,
                 completed |-> FALSE]

NoConvRun == [pc |-> "idle", batch_size |-> 0, total |-> 0, offset |-> 0,
              stats |-> NoConvReport, result |-> NoConvReport,
              log |-> <<>>, dbFault |-> "none", reads |-> 0]

\* The callers of incremental_sync: ETLWorker._incremental_sync_loop,
\* schedule_automatic_sync, and a caller that passes `since` itself.
Callers == {"worker", "scheduler", "direct"}

NoIncReport == [kind |-> "none", customers_synced |-> 0, conversations_synced |-> 0]

\* A call of incremental_sync: where it is, the `since` it filters by, the ids
\* of the rows its two reads returned, whether a fault has struck it, its
\* result, and whether its caller has written the checkpoint key after it.
NoIncRun == [pc |-> "idle", since |-> PyNone, result |-> NoIncReport,
             customers |-> {}, conversations |-> {}, clean |-> TRUE,
             stamped |-> FALSE]

\* The callers of full_system_sync: operators running run_full_system_sync.
Operators == {"operator1", "operator2"}

\* A call of full_system_sync: where it is, sync_results["overall_success"],
\* whether sync_results has the key "error", and whether the call has written
\* the checkpoint key.
NoSysRun == [pc |-> "idle", overall_success |-> TRUE, error |-> FALSE,
             stamped |-> FALSE]

\* for entity in ["customers", "conversations", "messages"]
EntityKinds == {"customers", "conversations", "messages"}

ZeroCounts == [e \in EntityKinds |-> 0]

\* The last result of validate_sync_integrity: the counts it used, the
\* percentages in hundredths of a percent, the entities it recommends a full
\* sync for; live is the count of nodes the graph held during the call, clean
\* whether the graph store was available to it.
NoIntegrity == [kind |-> "none", pg_counts |-> ZeroCounts, neo4j_counts |-> ZeroCounts,
                percentages |-> ZeroCounts, recommendations |-> {},
                live |-> ZeroCounts, clean |-> TRUE]

NoStatus == [kind |-> "none", neo4j_connected |-> FALSE, full_sync |-> PyNone,
             incremental_sync |-> PyNone, recommendations |-> {}]

\* ETLWorker before start(): self.running = False, self.tasks = [].  running
\* is self.running, stopped whether stop() has been called; for each of the
\* two tasks: where it is, and whether a cancellation of it is pending.
\* pending are the customer rows the run of the incremental loop has still
\* to project, merged what the MERGE of the row in hand returned, synced the
\* rows counted so far; inflight is the network call the task is suspended
\* in; interrupted and lateStart record a call cut short by a cancellation
\* and a run started after stop(); failed that the last run of the
\* incremental loop ended in an error or an exception.
NoWorker == [running |-> FALSE, stopped |-> FALSE,
             loop |-> "idle", loopCancel |-> FALSE,
             kb |-> "idle", kbCancel |-> FALSE,
             pending |-> <<>>, merged |-> FALSE, synced |-> 0,
             inflight |-> "none", interrupted |-> FALSE, lateStart |-> FALSE,
             failed |-> FALSE]

InitRuns ==
    /\ fullSync = NoRun
    /\ rt = NoRealtime
    /\ phase = [s |-> "none", id |-> 0]
    /\ convSync = NoConvRun
    /\ rtConv = NoRealtime
    /\ inc = [c \in Callers |-> NoIncRun]
    /\ sys = [o \in Operators |-> NoSysRun]
    /\ integrity = NoIntegrity
    /\ syncStatus = NoStatus
    /\ worker = NoWorker

AsideId == 1
AsideSession == <<"s", "1">>
SIMILAR == <<"similar_customers">>

Call(pc) == [pc |-> pc, held |-> PyNone, epoch |-> 0, ret |-> PyNone,
             raised |-> FALSE, cacheFault |-> FALSE]

InitAside(f) ==
    /\ faultsOn = f
    /\ customers = <<Row(1, AsideSession, 0), Row(2, <<"s", "2">>, 0)>>
    /\ graph = [EmptyGraph EXCEPT !.customers =
                           <<[customer_id |-> 1, attrs |-> 0, updated_at |-> 0],
                                [customer_id |-> 2, attrs |-> 0, updated_at |-> 0]>>]
    /\ reader = Call("idle")
    /\ updater = Call("idle")
    /\ simReader = Call("idle")
    /\ graphSync = [Call("idle") EXCEPT !.held = {}]
    /\ hist = [dbEpoch |-> 0, dbReturned |-> 0, gEpoch |-> 0, gReturned |-> 0,
               merges |-> 0, origin |-> <<>>]
    /\ InitRuns
    /\ convs = <<>>

----------------------------------------------------------------------------
(* One client of RedisClient issuing calls one after the other, and the    *)
(* clock of the store.                                                     *)

KVKeys == { GraphKey(<<"similar_customers">>, 1), SessionKey(<<"s", "1">>) }

KVPatterns == { GraphPattern(1), <<"customer", ":", "*">> }

\* expire arguments: omitted, or a duration.
KVExpires == { PyNone, PyInt(GRAPH_RESULTS_TTL) }

Op(op, key, fault, ret, raised) ==
    [op |-> op, key |-> key, fault |-> fault, ret |-> ret, raised |-> raised]

NoOp == Op("none", <<>>, "none", FALSE, FALSE)

Forget(w, ks) == [k \in DOMAIN w \ ks |-> w[k]]

NoInv == [pc |-> "idle", id |-> 0, keys |-> {}, pre |-> {}]

InitKV ==
    /\ now = 0
    /\ store = <<>>
    /\ lastOp = NoOp
    /\ written = <<>>
    /\ inv = NoInv
    /\ InitAside(FALSE)

\* What the single-client scenario leaves alone.
KVFrame == UNCHANGED <<inv, asideVars, syncVars, engineVars>>

KVSet(k, v, e, f) ==
    LET r == RedisClient_set(store, now, k, v, e, f) IN
    /\ store' = r.store
    /\ lastOp' = Op("set", k, f, r.ret, r.raised)
    /\ written' = IF r.ret
                  THEN [j \in DOMAIN written \cup {k} |->
                          IF j = k THEN [v |-> v, at |-> now, ttl |-> e]
                          ELSE written[j]]
                  ELSE written
    /\ UNCHANGED now
    /\ KVFrame

KVGet(k, f) ==
    LET r == RedisClient_get(store, k, f) IN
    /\ lastOp' = Op("get", k, f, r.ret, r.raised)
    /\ UNCHANGED <<now, store, written>>
    /\ KVFrame

KVDelete(k, f) ==
    LET r == RedisClient_delete(store, k, f) IN
    /\ store' = r.store
    /\ lastOp' = Op("delete", k, f, r.ret, r.raised)
    /\ written' = IF r.ret THEN Forget(written, {k}) ELSE written
    /\ UNCHANGED now
    /\ KVFrame

KVExists(k, f) ==
    LET r == RedisClient_exists(store, k, f) IN
    /\ lastOp' = Op("exists", k, f, r.ret, r.raised)
    /\ UNCHANGED <<now, store, written>>
    /\ KVFrame

KVInvalidate(p, f, fd) ==
    LET r == RedisClient_invalidate_pattern(store, p, f, fd) IN
    /\ (f # "none" \/ RedisKEYS(store, p) = {}) => fd = "none"
    /\ store' = r.store
    /\ lastOp' = Op("invalidate_pattern", p, IF f # "none" THEN f ELSE fd,
                    r.ret, r.raised)
    /\ written' = IF r.ret
                  THEN Forget(written, {k \in DOMAIN written : GlobMatch(p, k)})
                  ELSE written
    /\ UNCHANGED now
    /\ KVFrame

\* Time passes; the store drops the keys whose time to live has run out.
Tick ==
    /\ now + TickStep <= MaxTime
    /\ now' = now + TickStep
    /\ store' = Live(store, now + TickStep)
    /\ lastOp' = Op("tick", <<>>, "none", FALSE, FALSE)
    /\ UNCHANGED written
    /\ KVFrame

NextKV ==
    \/ \E k \in KVKeys, v \in PyValues, e \in KVExpires, f \in Faults : KVSet(k, v, e, f)
    \/ \E k \in KVKeys, f \in Faults : KVGet(k, f)
    \/ \E k \in KVKeys, f \in Faults : KVDelete(k, f)
    \/ \E k \in KVKeys, f \in Faults : KVExists(k, f)
    \/ \E p \in KVPatterns, f \in Faults, fd \in Faults : KVInvalidate(p, f, fd)
    \/ Tick

SpecKV == InitKV /\ [][NextKV]_vars

----------------------------------------------------------------------------
(* C2 *)

Elapsed(k) ==
    /\ written[k].ttl # PyNone
    /\ now >= written[k].at + written[k].ttl.v

----------------------------------------------------------------------------
(* Pattern invalidation racing with writers: several clients share the     *)
(* store, one of them is inside CacheService.invalidate_customer_graph_    *)
(* cache, whose KEYS and DEL commands are separate round trips.            *)

InvIds == {1, 11}

QueryTypes == { <<"similar_customers">>, <<"x", ":", "1">> }

\* f"success_patterns:{customer_id}" (GraphService.find_customer_success_patterns)
SuccessKey(customer_id) == <<"success_patterns", ":">> \o StrInt(customer_id)

InvGraphKeys == { GraphKey(qt, i) : qt \in QueryTypes, i \in InvIds }

InvOtherKeys == { SuccessKey(1), SessionKey(<<"1">>) }

InvResults == { PyList(<<>>), PyList(<<PyInt(1)>>) }

\* The keys graph:{query_type}:{i}, by construction rather than by glob.
GraphKeysOf(i) == { GraphKey(qt, i) : qt \in QueryTypes }

InvFrame == UNCHANGED <<now, written, asideVars, syncVars, engineVars>>

\* cache_graph_results(customer_id, query_type, results)
InvCacheGraph(i, qt, results, f) ==
    LET r == cache_graph_results(store, now, i, qt, results, f) IN
    /\ store' = r.store
    /\ lastOp' = Op("set", GraphKey(qt, i), f, r.ret, r.raised)
    /\ UNCHANGED inv
    /\ InvFrame

\* self.cache.redis.set(cache_key, ..., 3600) on a key of another namespace
InvOtherSet(k, v, f) ==
    LET r == RedisClient_set(store, now, k, v, PyInt(GRAPH_RESULTS_TTL), f) IN
    /\ store' = r.store
    /\ lastOp' = Op("set", k, f, r.ret, r.raised)
    /\ UNCHANGED inv
    /\ InvFrame

\* invalidate_customer_graph_cache(i), up to the reply of KEYS
InvalidateKeys(i, f) ==
    LET found == invalidate_pattern_keys(store, GraphPattern(i), f) IN
    /\ inv.pc = "idle"
    /\ IF found.ok
       THEN /\ inv' = [pc |-> "keys", id |-> i, keys |-> found.keys,
                       pre |-> GraphKeysOf(i) \cap DOMAIN store]
            /\ UNCHANGED lastOp
       ELSE /\ inv' = NoInv
            /\ lastOp' = Op("invalidate_pattern", GraphPattern(i), f, FALSE, FALSE)
    /\ UNCHANGED store
    /\ InvFrame

\* invalidate_customer_graph_cache(i), from the reply of KEYS to the return
InvalidateDel(fd) ==
    LET r == invalidate_pattern_del(store, inv.keys, fd) IN
    /\ inv.pc = "keys"
    /\ inv.keys = {} => fd = "none"
    /\ store' = r.store
    /\ inv' = [inv EXCEPT !.pc = "idle"]
    /\ lastOp' = Op("invalidate_pattern", GraphPattern(inv.id), fd, r.ret, r.raised)
    /\ InvFrame

NextInv ==
    \/ \E i \in InvIds, qt \in QueryTypes, v \in InvResults, f \in Faults :
          InvCacheGraph(i, qt, v, f)
    \/ \E k \in InvOtherKeys, v \in InvResults, f \in Faults : InvOtherSet(k, v, f)
    \/ \E i \in InvIds, f \in Faults : InvalidateKeys(i, f)
    \/ \E fd \in Faults : InvalidateDel(fd)

SpecInv == InitKV /\ [][NextInv]_vars

----------------------------------------------------------------------------
(* C4, C5 *)

\* The step on which invalidate_customer_graph_cache(inv.id) returns True.
InvalidateReturnsTrue ==
    /\ inv.pc = "keys" /\ inv'.pc = "idle"
    /\ lastOp'.op = "invalidate_pattern" /\ lastOp'.ret = TRUE

\* C4: when invalidate_customer_graph_cache(i) returns True, every key
\* graph:{query_type}:{i} that was stored when it was called is gone, and
\* its DEL leaves every key graph:{query_type}:{j} with j # i and every key
\* outside the graph: prefix in the store with its value unchanged.
C4_InvalidationFanOut ==
    [][InvalidateReturnsTrue =>
        /\ \A k \in inv.pre : k \notin DOMAIN store'
        /\ \A k \in DOMAIN store \ GraphKeysOf(inv.id) :
              k \in DOMAIN store' /\ store'[k] = store[k]]_vars

\* An invalidation for customer 1 that returned True after removing two query
\* types, with a key of customer 11 and non-graph keys ending in ":1" stored.
C4_Witness ==
    /\ lastOp.op = "invalidate_pattern" /\ lastOp.ret = TRUE
    /\ inv.pc = "idle" /\ inv.id = 1
    /\ inv.pre = GraphKeysOf(1)
    /\ GraphKeysOf(1) \cap DOMAIN store = {}
    /\ GraphKey(<<"similar_customers">>, 11) \in DOMAIN store
    /\ SuccessKey(1) \in DOMAIN store
    /\ SessionKey(<<"1">>) \in DOMAIN store

\* C5 (as claimed): when invalidate_pattern(glob) returns True, no key
\* matching the glob is in the store, whatever sets ran concurrently.
C5_AtomicBatch ==
    (lastOp.op = "invalidate_pattern" /\ lastOp.ret = TRUE) =>
        RedisKEYS(store, lastOp.key) = {}


----------------------------------------------------------------------------
(* Cache-aside readers racing with mutations.  Every await on the cache or *)
(* a query of a store is one step; callers run in different tasks and      *)
(* processes (API workers, the ETL worker), so their steps interleave.     *)

AttrValues == {0, 1}

FaultSet == IF faultsOn THEN Faults ELSE {"none"}

AsideFrame == UNCHANGED <<now, written, inv, faultsOn, syncVars, engineVars>>

Remember(k, e) ==
    [hist EXCEPT !.origin = [j \in DOMAIN @ \cup {k} |-> IF j = k THEN e ELSE @[j]]]

\* get_customer_by_session: cached_customer = await get_cached_customer_session
ReaderGet(f) ==
    LET r == get_cached_customer_session(store, AsideSession, f) IN
    /\ reader.pc = "idle"
    /\ lastOp' = Op("get", SessionKey(AsideSession), f, r.ret, r.raised)
    /\ reader' =
         IF r.raised THEN [Call("idle") EXCEPT !.raised = TRUE]
         ELSE IF Truthy(r.ret) THEN [Call("idle") EXCEPT !.ret = r.ret]
         ELSE [Call("miss") EXCEPT !.cacheFault = (f # "none")]
    /\ UNCHANGED <<store, customers, graph, updater, simReader, graphSync, hist>>
    /\ AsideFrame

\* get_customer_by_session: db.query(Customer).filter(session_id == ...).first()
ReaderDb ==
    LET sel == SelectBySession(customers, AsideSession) IN
    /\ reader.pc = "miss"
    /\ reader' =
         IF sel.found
         THEN [reader EXCEPT !.pc = "fill", !.held = customer_dict(sel.row),
                             !.epoch = hist.dbEpoch]
         ELSE [reader EXCEPT !.pc = "idle"]
    /\ UNCHANGED <<store, lastOp, customers, graph, updater, simReader, graphSync, hist>>
    /\ AsideFrame

\* get_customer_by_session: await cache_customer_session(...); return customer
ReaderSet(f) ==
    LET r == cache_customer_session(store, now, AsideSession, reader.held, f) IN
    /\ reader.pc = "fill"
    /\ store' = r.store
    /\ lastOp' = Op("set", SessionKey(AsideSession), f, r.ret, r.raised)
    /\ hist' = IF r.ret THEN Remember(SessionKey(AsideSession), reader.epoch) ELSE hist
    /\ reader' = [reader EXCEPT !.pc = "idle",
                                !.ret = IF r.raised THEN PyNone ELSE reader.held,
                                !.raised = r.raised,
                                !.cacheFault = @ \/ f # "none"]
    /\ UNCHANGED <<customers, graph, updater, simReader, graphSync>>
    /\ AsideFrame

\* update_customer: query, setattr, db.commit(), db.refresh()
UpdaterCommit(attrs) ==
    LET sel == SelectById(customers, AsideId) IN
    /\ updater.pc = "idle"
    /\ hist.dbEpoch < MaxUpdates
    /\ sel.found => attrs # sel.row.attrs
    /\ IF sel.found
       THEN /\ customers' = Stamp(UpdateRow(customers, AsideId, attrs), AsideId, now)
            /\ hist' = [hist EXCEPT !.dbEpoch = @ + 1]
            /\ updater' = [Call("inval") EXCEPT
                              !.held = customer_dict([sel.row EXCEPT !.attrs = attrs]),
                              !.epoch = hist.dbEpoch + 1]
       ELSE /\ updater' = Call("idle")
            /\ UNCHANGED <<customers, hist>>
    /\ UNCHANGED <<store, lastOp, graph, reader, simReader, graphSync>>
    /\ AsideFrame

\* update_customer: await invalidate_customer_session(...); return customer
UpdaterInvalidate(f) ==
    LET r == invalidate_customer_session(store, AsideSession, f) IN
    /\ updater.pc = "inval"
    /\ store' = r.store
    /\ lastOp' = Op("delete", SessionKey(AsideSession), f, r.ret, r.raised)
    /\ hist' = [hist EXCEPT !.dbReturned = updater.epoch]
    /\ updater' = [updater EXCEPT !.pc = "idle",
                                  !.ret = IF r.raised THEN PyNone ELSE updater.held,
                                  !.raised = r.raised,
                                  !.cacheFault = f # "none"]
    /\ UNCHANGED <<customers, graph, reader, simReader, graphSync>>
    /\ AsideFrame

\* find_similar_customers: cached_similar = await get_cached_graph_results
SimGet(f) ==
    LET r == get_cached_graph_results(store, AsideId, SIMILAR, f) IN
    /\ simReader.pc = "idle"
    /\ lastOp' = Op("get", GraphKey(SIMILAR, AsideId), f, r.ret, r.raised)
    /\ simReader' =
         IF r.raised THEN [Call("idle") EXCEPT !.raised = TRUE]
         ELSE IF Truthy(r.ret) THEN [Call("idle") EXCEPT !.ret = r.ret]
         ELSE [Call("miss") EXCEPT !.cacheFault = (f # "none")]
    /\ UNCHANGED <<store, customers, graph, reader, updater, graphSync, hist>>
    /\ AsideFrame

\* find_similar_customers: results = self.neo4j.execute_query(query, ...)
SimQuery ==
    LET q == execute_query(graph, CypherSimilarCustomers(graph, AsideId), "none") IN
    /\ simReader.pc = "miss"
    /\ simReader' = [simReader EXCEPT !.pc = "fill", !.held = PyList(q.records),
                                      !.epoch = hist.gEpoch]
    /\ UNCHANGED <<store, lastOp, customers, graph, reader, updater, graphSync, hist>>
    /\ AsideFrame

\* find_similar_customers: await cache_graph_results(...); return
\* similar_customers (the except branch returns [])
SimSet(f) ==
    LET r == cache_graph_results(store, now, AsideId, SIMILAR, simReader.held, f) IN
    /\ simReader.pc = "fill"
    /\ store' = r.store
    /\ lastOp' = Op("set", GraphKey(SIMILAR, AsideId), f, r.ret, r.raised)
    /\ hist' = IF r.ret THEN Remember(GraphKey(SIMILAR, AsideId), simReader.epoch)
               ELSE hist
    /\ simReader' = [simReader EXCEPT !.pc = "idle",
                        !.ret = IF r.raised THEN PyList(<<>>) ELSE simReader.held,
                        !.cacheFault = @ \/ f # "none"]
    /\ UNCHANGED <<customers, graph, reader, updater, graphSync>>
    /\ AsideFrame

\* sync_customer_to_graph(customer_data) for the row of customer i, as
\* called by sync_customer_realtime: result = self.neo4j.execute_query(MERGE ...)
SyncMerge(i) ==
    LET sel == SelectById(customers, i)
        q == execute_query(graph,
                 CypherMergeCustomer(graph, CustomerParams(sel.row), now), "none")
    IN
    /\ graphSync.pc = "idle"
    /\ hist.merges < MaxMerges
    /\ sel.found
    /\ graph' = q.graph
    /\ hist' = [hist EXCEPT !.merges = @ + 1,
                            !.gEpoch = IF i = AsideId THEN @ + 1 ELSE @]
    /\ graphSync' = [Call("merged") EXCEPT
                        !.held = {}, !.ret = FALSE,
                        !.epoch = [id |-> i, ok |-> Len(q.records) > 0,
                                   e |-> hist.gEpoch + 1]]
    /\ UNCHANGED <<store, lastOp, customers, reader, updater, simReader>>
    /\ AsideFrame

Returned(i, e) == IF i = AsideId THEN [hist EXCEPT !.gReturned = e] ELSE hist

\* sync_customer_to_graph: await invalidate_customer_graph_cache(id), KEYS
SyncKeys(f) ==
    LET found == invalidate_pattern_keys(store, GraphPattern(graphSync.epoch.id), f) IN
    /\ graphSync.pc = "merged"
    /\ IF found.ok
       THEN /\ graphSync' = [graphSync EXCEPT !.pc = "keys", !.held = found.keys]
            /\ UNCHANGED <<lastOp, hist>>
       ELSE /\ graphSync' = [graphSync EXCEPT !.pc = "idle", !.cacheFault = TRUE,
                                              !.ret = graphSync.epoch.ok]
            /\ lastOp' = Op("invalidate_pattern", GraphPattern(graphSync.epoch.id),
                            f, FALSE, FALSE)
            /\ hist' = Returned(graphSync.epoch.id, graphSync.epoch.e)
    /\ UNCHANGED <<store, customers, graph, reader, updater, simReader>>
    /\ AsideFrame

\* sync_customer_to_graph: DEL of the keys found; return len(result) > 0
\* (the except branch returns False)
SyncDel(f) ==
    LET r == invalidate_pattern_del(store, graphSync.held, f) IN
    /\ graphSync.pc = "keys"
    /\ graphSync.held = {} => f = "none"
    /\ store' = r.store
    /\ lastOp' = Op("invalidate_pattern", GraphPattern(graphSync.epoch.id),
                    f, r.ret, r.raised)
    /\ hist' = Returned(graphSync.epoch.id, graphSync.epoch.e)
    /\ graphSync' = [graphSync EXCEPT !.pc = "idle",
                        !.ret = IF r.raised THEN FALSE ELSE graphSync.epoch.ok,
                        !.cacheFault = (f # "none")]
    /\ UNCHANGED <<customers, graph, reader, updater, simReader>>
    /\ AsideFrame

\* CacheService.exists(key)
AsideExists(k, f) ==
    LET r == RedisClient_exists(store, k, f) IN
    /\ lastOp.op # "exists"
    /\ lastOp' = Op("exists", k, f, r.ret, r.raised)
    /\ UNCHANGED <<store, customers, graph, reader, updater, simReader, graphSync, hist>>
    /\ AsideFrame

NextAside ==
    \/ \E f \in FaultSet : ReaderGet(f)
    \/ ReaderDb
    \/ \E f \in FaultSet : ReaderSet(f)
    \/ \E a \in AttrValues : UpdaterCommit(a)
    \/ \E f \in FaultSet : UpdaterInvalidate(f)
    \/ \E f \in FaultSet : SimGet(f)
    \/ SimQuery
    \/ \E f \in FaultSet : SimSet(f)
    \/ SyncMerge(AsideId)
    \/ \E f \in FaultSet : SyncKeys(f)
    \/ \E f \in FaultSet : SyncDel(f)
    \/ \E f \in FaultSet : AsideExists(SessionKey(AsideSession), f)

InitNoFaults ==
    /\ now = 0 /\ store = <<>> /\ lastOp = NoOp /\ written = <<>> /\ inv = NoInv
    /\ InitAside(FALSE)

InitFaults ==
    /\ now = 0 /\ store = <<>> /\ lastOp = NoOp /\ written = <<>> /\ inv = NoInv
    /\ InitAside(TRUE)

SpecAside == InitNoFaults /\ [][NextAside]_vars

SpecFault == InitFaults /\ [][NextAside]_vars

----------------------------------------------------------------------------
(* C1, C3 *)

Fresh(k, returned) == k \in DOMAIN store => hist.origin[k] >= returned

\* C1 (as claimed): once update_customer or sync_customer_to_graph has
\* returned, no cache entry of that customer holds a value that was read from
\* the source before that mutation, whatever the concurrent readers did.
C1_InvalidateBeforeRepopulate ==
    /\ Fresh(SessionKey(AsideSession), hist.dbReturned)
    /\ Fresh(GraphKey(SIMILAR, AsideId), hist.gReturned)

\* C3: a cache operation that hits a fault (transport error or unconnected
\* client) does not raise and returns None (get) or False (the others), and
\* the cache-aside read or sync that issued it still returns its result.
C3_CacheFaultsAreSafe ==
    /\ lastOp.fault # "none" =>
          /\ ~lastOp.raised
          /\ lastOp.ret = IF lastOp.op = "get" THEN PyNone ELSE FALSE
    /\ ~reader.raised /\ ~updater.raised /\ ~simReader.raised /\ ~graphSync.raised
    /\ (reader.pc = "idle" /\ reader.cacheFault) =>
          reader.ret = reader.held /\ reader.ret # PyNone
    /\ (updater.pc = "idle" /\ updater.cacheFault) => updater.ret = updater.held
    /\ (simReader.pc = "idle" /\ simReader.cacheFault) =>
          simReader.ret = simReader.held
    /\ (graphSync.pc = "idle" /\ graphSync.cacheFault) => graphSync.ret = TRUE

\* get_customer_by_session returned the row of the database although its
\* cache read and its cache write both failed, the latter on an unconnected
\* client.
C3_Witness ==
    /\ reader.pc = "idle" /\ reader.cacheFault
    /\ lastOp.op = "set" /\ lastOp.fault = "unconnected" /\ lastOp.ret = FALSE
    /\ reader.ret = customer_dict(customers[1])
    /\ updater.cacheFault /\ graphSync.cacheFault /\ simReader.cacheFault


----------------------------------------------------------------------------
(* ETLService: full and real-time customer sync. *)

Min(a, b) == IF a <= b THEN a ELSE b

\* sync_customer_to_graph run to its end: the MERGE, the invalidation of
\* graph:*:{id}, return len(result) > 0.
sync_customer_to_graph(g, s, t, customer_data, gfault, cfault) ==
    LET q == execute_query(g, CypherMergeCustomer(g, CustomerParams(customer_data), t),
                           gfault)
        c == RedisClient_invalidate_pattern(s, GraphPattern(customer_data.id),
                                            cfault, "none")
    IN [graph |-> q.graph, store |-> c.store, ret |-> Len(q.records) > 0]

\* What happens to one record of a batch: "ok", "graph_fault" (its MERGE
\* fails inside execute_query) or "raise" (building customer_data raises).
RecordFaults == {"ok", "graph_fault", "raise"}

Batch(g, s, synced, failed, raised) ==
    [graph |-> g, store |-> s, synced |-> synced, failed |-> failed, raised |-> raised]

\* _sync_customer_batch without the try/except around each record.
RECURSIVE sync_customer_batch_unguarded(_, _, _, _, _)
sync_customer_batch_unguarded(g, s, t, rows, outcomes) ==
    IF rows = <<>> THEN Batch(g, s, 0, 0, FALSE)
    ELSE IF Head(outcomes) = "raise" THEN Batch(g, s, 0, 0, TRUE)
    ELSE LET one == sync_customer_to_graph(g, s, t, Head(rows),
                        IF Head(outcomes) = "graph_fault" THEN "transport" ELSE "none",
                        "none")
             rest == sync_customer_batch_unguarded(one.graph, one.store, t,
                                                   Tail(rows), Tail(outcomes))
         IN Batch(rest.graph, rest.store,
                  rest.synced + (IF one.ret THEN 1 ELSE 0),
                  rest.failed + (IF one.ret THEN 0 ELSE 1), rest.raised)

\* _sync_customer_batch(customers, db)
RECURSIVE sync_customer_batch(_, _, _, _, _)
sync_customer_batch(g, s, t, rows, outcomes) ==
    IF rows = <<>> THEN Batch(g, s, 0, 0, FALSE)
    ELSE IF Head(outcomes) = "raise"
    THEN LET rest == sync_customer_batch(g, s, t, Tail(rows), Tail(outcomes)) IN
         Batch(rest.graph, rest.store, rest.synced, rest.failed + 1, rest.raised)
    ELSE LET one == sync_customer_to_graph(g, s, t, Head(rows),
                        IF Head(outcomes) = "graph_fault" THEN "transport" ELSE "none",
                        "none")
             rest == sync_customer_batch(one.graph, one.store, t,
                                         Tail(rows), Tail(outcomes))
         IN Batch(rest.graph, rest.store,
                  rest.synced + (IF one.ret THEN 1 ELSE 0),
                  rest.failed + (IF one.ret THEN 0 ELSE 1), rest.raised)

\* query.offset(offset).limit(batch_size).all() dropping the last row.
Window_short(table, offset, batch_size) ==
    SubSeq(table, offset + 1, Min(offset + batch_size, Len(table)) - 1)

\* db.query(Customer).offset(offset).limit(batch_size).all()
Window(table, offset, batch_size) ==
    SubSeq(table, offset + 1, Min(offset + batch_size, Len(table)))

\* The relational store rejects a negative LIMIT: the paged read raises.
LimitRejected(batch_size) == batch_size < 0

\* offset += batch_size with 1 in its place.
NextOffset_one(offset, batch_size) == offset + 1

\* offset += batch_size
NextOffset(offset, batch_size) == offset + batch_size

\* except Exception: return {"error": str(e), "synced_customers": 0}
ErrorReport == [kind |-> "error", synced |-> 0, failed |-> 0, batches |-> 0,
                completed |-> FALSE]

\* sync_stats["completed_at"] = ...; return sync_stats
Completed(stats) == [stats EXCEPT !.kind = "report", !.completed = TRUE]

SyncFrame == UNCHANGED <<now, lastOp, written, inv, faultsOn,
                         reader, updater, simReader, graphSync,
                         convs, convSync, rtConv, engineVars>>

\* full_sync_customers(batch_size): total_customers = db.query(Customer).count()
FullStart(batch_size, dbFault) ==
    /\ fullSync.pc # "loop"
    /\ fullSync' =
         IF dbFault
         THEN [NoRun EXCEPT !.pc = "done", !.batch_size = batch_size,
                            !.result = ErrorReport, !.dbFault = "count",
                            !.reads = 1]
         ELSE IF 0 < Len(customers)
         THEN [NoRun EXCEPT !.pc = "loop", !.batch_size = batch_size,
                            !.total = Len(customers), !.reads = 1]
         ELSE [NoRun EXCEPT !.pc = "done", !.batch_size = batch_size,
                            !.result = Completed(NoReport), !.reads = 1]
    /\ phase' = [s |-> "none", id |-> 0]
    /\ UNCHANGED <<store, customers, graph, rt, hist>>
    /\ SyncFrame

\* One pass of `while offset < total_customers`: the paged read, the batch,
\* the counters, offset += batch_size, and the return when the loop ends.
FullWindow(dbFault, outcomes) ==
    LET rows == Window(customers, fullSync.offset, fullSync.batch_size)
        b == sync_customer_batch(graph, store, now, rows, outcomes)
        stats == [fullSync.stats EXCEPT !.synced = @ + b.synced,
                                        !.failed = @ + b.failed,
                                        !.batches = @ + 1]
        offset == NextOffset(fullSync.offset, fullSync.batch_size)
        rejected == LimitRejected(fullSync.batch_size)
    IN
    /\ fullSync.pc = "loop"
    /\ rejected => ~dbFault
    /\ IF dbFault \/ rejected THEN outcomes = <<>>
       ELSE DOMAIN outcomes = 1..Len(rows)
    /\ IF dbFault \/ rejected \/ b.raised
       THEN /\ fullSync' = [fullSync EXCEPT !.pc = "done", !.result = ErrorReport,
                                            !.reads = @ + 1,
                                            !.dbFault = IF dbFault THEN "window"
                                                        ELSE IF rejected THEN "limit"
                                                        ELSE "none"]
            /\ UNCHANGED <<graph, store, phase>>
       ELSE IF rows = <<>>
       THEN /\ fullSync' = [fullSync EXCEPT !.pc = "done", !.reads = @ + 1,
                                            !.result = Completed(fullSync.stats)]
            /\ UNCHANGED <<graph, store, phase>>
       ELSE /\ graph' = b.graph
            /\ store' = b.store
            /\ fullSync' =
                 [fullSync EXCEPT
                    !.offset = offset,
                    !.stats = stats,
                    !.reads = @ + 1,
                    !.log = Append(@, [offset |-> fullSync.offset, n |-> Len(rows),
                                       bad |-> Cardinality({i \in 1..Len(rows) :
                                                               outcomes[i] # "ok"}),
                                       synced |-> b.synced, failed |-> b.failed]),
                    !.pc = IF offset < fullSync.total THEN "loop" ELSE "done",
                    !.result = IF offset < fullSync.total THEN NoReport
                               ELSE Completed(stats)]
            /\ phase' = IF offset >= fullSync.total /\ ~fullSync.dirty
                           /\ stats.failed = 0
                        THEN [s |-> "full", id |-> 0]
                        ELSE phase
    /\ UNCHANGED <<customers, rt, hist>>
    /\ SyncFrame

\* sync_customer_realtime(customer_id)
sync_customer_realtime(g, s, t, table, customer_id, dbFault, gfault, cfault) ==
    LET sel == SelectById(table, customer_id) IN
    IF dbFault \/ ~sel.found THEN [graph |-> g, store |-> s, ret |-> FALSE]
    ELSE sync_customer_to_graph(g, s, t, sel.row, gfault, cfault)

RealtimeCustomer(i, dbFault, gfault, cfault) ==
    LET r == sync_customer_realtime(graph, store, now, customers, i, dbFault, gfault,
                                    cfault) IN
    /\ graph' = r.graph
    /\ store' = r.store
    /\ rt' = [ret |-> r.ret, faulted |-> dbFault \/ gfault # "none"]
    /\ phase' = IF r.ret /\ phase.s = "changed" /\ phase.id = i
                THEN [s |-> "resynced", id |-> i]
                ELSE IF r.ret /\ phase.s \in {"resynced", "twice"} /\ phase.id = i
                THEN [s |-> "twice", id |-> i]
                ELSE IF phase.s \in {"resynced", "twice"} /\ phase.id # i THEN phase
                ELSE [s |-> "none", id |-> 0]
    /\ UNCHANGED <<customers, fullSync, hist>>
    /\ SyncFrame

\* A committed change of the mutable columns of row i (update_customer).
ChangeRow(i, attrs) ==
    /\ i \in 1..Len(customers)
    /\ hist.dbEpoch < MaxUpdates
    /\ customers[i].attrs # attrs
    /\ hist' = [hist EXCEPT !.dbEpoch = @ + 1]
    /\ customers' = Stamp(UpdateRow(customers, customers[i].id, attrs),
                          customers[i].id, now)
    /\ fullSync' = IF fullSync.pc = "loop" THEN [fullSync EXCEPT !.dirty = TRUE]
                   ELSE fullSync
    /\ UNCHANGED rt
    /\ phase' = IF phase.s = "full" THEN [s |-> "changed", id |-> customers[i].id]
                ELSE [s |-> "none", id |-> 0]
    /\ UNCHANGED <<store, graph>>
    /\ SyncFrame

BatchSizes == 1..MaxBatch

\* Batch sizes a caller may pass that are no window size.
BadBatchSizes == {-1, 0}

Outcomes == UNION { [1..n -> RecordFaults] : n \in 0..MaxBatch }

NextSync ==
    \/ \E b \in BatchSizes \cup BadBatchSizes, dbFault \in BOOLEAN :
          FullStart(b, dbFault)
    \/ \E dbFault \in BOOLEAN, o \in Outcomes : FullWindow(dbFault, o)
    \/ \E i \in 1..MaxRows, dbFault \in BOOLEAN, gfault \in {"none", "transport"} :
          RealtimeCustomer(i, dbFault, gfault, "none")
    \/ \E i \in 1..MaxRows, a \in AttrValues : ChangeRow(i, a)

\* The customers table holds n rows; nothing is projected yet.
InitSync ==
    /\ now = 0 /\ store = <<>> /\ lastOp = NoOp /\ written = <<>> /\ inv = NoInv
    /\ faultsOn = FALSE
    /\ \E n \in 0..MaxRows :
          customers = [i \in 1..n |-> Row(i, <<"s">> \o StrInt(i), 0)]
    /\ graph = EmptyGraph
    /\ reader = Call("idle")
    /\ updater = Call("idle")
    /\ simReader = Call("idle")
    /\ graphSync = [Call("idle") EXCEPT !.held = {}]
    /\ hist = [dbEpoch |-> 0, dbReturned |-> 0, gEpoch |-> 0, gReturned |-> 0,
               merges |-> 0, origin |-> <<>>]
    /\ InitRuns
    /\ convs = <<>>

SpecSync == InitSync /\ [][NextSync]_vars


----------------------------------------------------------------------------
(* Conversations: the relational rows, their projection, full and real-time
   conversation sync. *)

\* The Customer nodes with this customer_id.
NodesOf(g, customer_id) ==
    {i \in 1..Len(g.customers) : g.customers[i].customer_id = customer_id}

\* A row of the messages table: id, intent.
Msg(id, intent) == [id |-> id, intent |-> intent]

\* A row of the conversations table with the rows of messages that refer to it.
ConvRow(id, customer_id, status, resolution, satisfaction_rating, messages) ==
    [id |-> id, customer_id |-> customer_id, status |-> status,
     resolution |-> resolution, satisfaction_rating |-> satisfaction_rating,
     started_at |-> PyDatetime(0), messages |-> messages]

ConvsOf(g, conversation_id) ==
    {k \in 1..Len(g.conversations) :
        g.conversations[k].conversation_id = conversation_id}

\* MATCH (c:Customer {customer_id}) MERGE (c)-[:HAD_CONVERSATION]->
\* (conv:Conversation {conversation_id}) SET conv.status = ..., ...
\* Nothing is written when no Customer matches, and the uniqueness constraint
\* on conversation_id rejects a second node under another customer.
CypherMergeConversation(g, params) ==
    LET owners == NodesOf(g, params.customer_id)
        same == ConvsOf(g, params.conversation_id)
        mine == {k \in same : g.conversations[k].customer_id = params.customer_id}
    IN [graph |->
          IF owners = {} \/ (mine = {} /\ same # {}) THEN g
          ELSE IF mine = {}
          THEN [g EXCEPT !.conversations =
                   Append(@, [conversation_id |-> params.conversation_id,
                              customer_id |-> params.customer_id,
                              status |-> params.status,
                              satisfaction_rating |-> params.satisfaction_rating])]
          ELSE [g EXCEPT !.conversations =
                   [k \in 1..Len(@) |->
                       IF k \in mine
                       THEN [@[k] EXCEPT !.status = params.status,
                                         !.satisfaction_rating = params.satisfaction_rating]
                       ELSE @[k]]],
        records |-> <<>>]

\* MATCH (conv:Conversation {conversation_id}) MERGE (conv)-[:CONTAINS_MESSAGE]->
\* (msg:Message {message_id}) SET msg.intent = ..., MERGE (topic:Topic {name:
\* $intent}) MERGE (conv)-[:DISCUSSED]->(topic)
CypherMergeMessage(g, params) ==
    LET old == {k \in 1..Len(g.messages) :
                   /\ g.messages[k].message_id = params.message_id
                   /\ g.messages[k].conversation_id = params.conversation_id}
    IN [graph |->
          IF ConvsOf(g, params.conversation_id) = {} THEN g
          ELSE [g EXCEPT
                  !.messages =
                     IF old = {}
                     THEN Append(@, [message_id |-> params.message_id,
                                     conversation_id |-> params.conversation_id,
                                     intent |-> params.intent])
                     ELSE [k \in 1..Len(@) |->
                              IF k \in old THEN [@[k] EXCEPT !.intent = params.intent]
                              ELSE @[k]],
                  !.topics = @ \cup {params.intent},
                  !.discussed = @ \cup {<<params.conversation_id, params.intent>>}],
        records |-> <<>>]

\* MATCH (conv:Conversation {conversation_id}) MERGE (conv)-[:RESOLVED_WITH]->
\* (r:Resolution {strategy, outcome, satisfaction}); the store rejects a MERGE
\* on a null property value.
CypherMergeResolution(g, params) ==
    LET node == [conversation_id |-> params.conversation_id,
                 strategy |-> params.resolution,
                 satisfaction |-> params.satisfaction_rating]
    IN [graph |->
          IF \/ ConvsOf(g, params.conversation_id) = {}
             \/ params.satisfaction_rating = PyNone
             \/ \E k \in 1..Len(g.resolutions) : g.resolutions[k] = node
          THEN g
          ELSE [g EXCEPT !.resolutions = Append(@, node)],
        records |-> <<>>]

Fault(k, failing) == IF k \in failing THEN "transport" ELSE "none"

\* `for msg in messages: if msg.get("intent"): execute_query(msg_query, ...)`
\* from message j on; statement 1 + j is the query of message j.
RECURSIVE sync_messages(_, _, _, _, _)
sync_messages(g, conversation_id, messages, j, failing) ==
    IF j > Len(messages) THEN g
    ELSE sync_messages(
           IF Truthy(messages[j].intent)
           THEN execute_query(g,
                    CypherMergeMessage(g, [conversation_id |-> conversation_id,
                                           message_id |-> messages[j].id,
                                           intent |-> messages[j].intent]),
                    Fault(1 + j, failing)).graph
           ELSE g,
           conversation_id, messages, j + 1, failing)

\* if conversation_data.get("status") == "resolved" and
\*    conversation_data.get("resolution")
HasResolution(conversation_data) ==
    conversation_data.status = "resolved" /\ Truthy(conversation_data.resolution)

\* The statements sync_conversation_to_graph issues for a conversation:
\* 1 the conversation, 1 + j message j, Len(messages) + 2 the resolution.
Issued(conversation_data, messages) ==
    {1} \cup {1 + j : j \in {j \in 1..Len(messages) : Truthy(messages[j].intent)}}
        \cup (IF HasResolution(conversation_data) THEN {Len(messages) + 2} ELSE {})

\* sync_conversation_to_graph(conversation_data, messages); the statements in
\* failing fail inside execute_query.
sync_conversation_to_graph(g, conversation_data, messages, failing) ==
    LET g1 == execute_query(g,
                  CypherMergeConversation(g,
                      [customer_id |-> conversation_data.customer_id,
                       conversation_id |-> conversation_data.id,
                       status |-> conversation_data.status,
                       satisfaction_rating |-> conversation_data.satisfaction_rating]),
                  Fault(1, failing)).graph
        g2 == sync_messages(g1, conversation_data.id, messages, 1, failing)
        g3 == IF HasResolution(conversation_data)
              THEN execute_query(g2,
                       CypherMergeResolution(g2,
                           [conversation_id |-> conversation_data.id,
                            resolution |-> conversation_data.resolution,
                            satisfaction_rating |-> conversation_data.satisfaction_rating]),
                       Fault(Len(messages) + 2, failing)).graph
              ELSE g2
    IN [graph |-> g3, ret |-> TRUE]

\* What happens to one conversation: building conv_data raises, or none, the
\* first, all but the first, or all of its statements fail.
ConvFaults == {"ok", "raise", "first", "rest", "all"}

\* The statements of a conversation that fail.
Failing(kind, row) ==
    CASE kind = "first" -> {1}
      [] kind = "rest" -> Issued(row, row.messages) \ {1}
      [] kind = "all" -> Issued(row, row.messages)
      [] OTHER -> {}

ConvBatch(g, synced, failed, synced_messages, bad) ==
    [graph |-> g, synced |-> synced, failed |-> failed,
     synced_messages |-> synced_messages, bad |-> bad]

\* `for conv in conversations:` of full_sync_conversations
RECURSIVE sync_conversation_window(_, _, _)
sync_conversation_window(g, rows, outcomes) ==
    IF rows = <<>> THEN ConvBatch(g, 0, 0, 0, 0)
    ELSE IF Head(outcomes) = "raise"
    THEN LET rest == sync_conversation_window(g, Tail(rows), Tail(outcomes)) IN
         ConvBatch(rest.graph, rest.synced, rest.failed + 1, rest.synced_messages,
                   rest.bad + 1)
    ELSE LET one == sync_conversation_to_graph(g, Head(rows), Head(rows).messages,
                                               Failing(Head(outcomes), Head(rows)))
             rest == sync_conversation_window(one.graph, Tail(rows), Tail(outcomes))
         IN ConvBatch(rest.graph,
                      rest.synced + (IF one.ret THEN 1 ELSE 0),
                      rest.failed + (IF one.ret THEN 0 ELSE 1),
                      rest.synced_messages
                          + (IF one.ret THEN Len(Head(rows).messages) ELSE 0),
                      rest.bad + (IF Failing(Head(outcomes), Head(rows)) # {}
                                  THEN 1 ELSE 0))

\* except Exception: return {"error": str(e), "synced_conversations": 0}
ConvErrorReport == [NoConvReport EXCEPT !.kind = "error"]

ConvFrame == UNCHANGED <<now, store, lastOp, written, inv, faultsOn, customers,
                         reader, updater, simReader, graphSync, hist,
                         fullSync, rt, phase, convs, engineVars>>

\* full_sync_conversations(batch_size): total = db.query(Conversation).count()
ConvFullStart(batch_size, dbFault) ==
    /\ convSync.pc # "loop"
    /\ convSync' =
         IF dbFault
         THEN [NoConvRun EXCEPT !.pc = "done", !.batch_size = batch_size,
                                !.result = ConvErrorReport, !.dbFault = "count",
                                !.reads = 1]
         ELSE IF 0 < Len(convs)
         THEN [NoConvRun EXCEPT !.pc = "loop", !.batch_size = batch_size,
                                !.total = Len(convs), !.reads = 1]
         ELSE [NoConvRun EXCEPT !.pc = "done", !.batch_size = batch_size,
                                !.result = Completed(NoConvReport), !.reads = 1]
    /\ UNCHANGED <<graph, rtConv>>
    /\ ConvFrame

\* One pass of `while offset < total_conversations`.
ConvWindow(dbFault, outcomes) ==
    LET rows == Window(convs, convSync.offset, convSync.batch_size)
        b == sync_conversation_window(graph, rows, outcomes)
        stats == [convSync.stats EXCEPT !.synced = @ + b.synced,
                                        !.failed = @ + b.failed,
                                        !.synced_messages = @ + b.synced_messages]
        offset == NextOffset(convSync.offset, convSync.batch_size)
        rejected == LimitRejected(convSync.batch_size)
    IN
    /\ convSync.pc = "loop"
    /\ rejected => ~dbFault
    /\ IF dbFault \/ rejected THEN outcomes = <<>>
       ELSE DOMAIN outcomes = 1..Len(rows)
    /\ IF dbFault \/ rejected
       THEN /\ convSync' = [convSync EXCEPT !.pc = "done", !.result = ConvErrorReport,
                                            !.reads = @ + 1,
                                            !.dbFault = IF dbFault THEN "window"
                                                        ELSE "limit"]
            /\ UNCHANGED graph
       ELSE IF rows = <<>>
       THEN /\ convSync' = [convSync EXCEPT !.pc = "done", !.reads = @ + 1,
                                            !.result = Completed(convSync.stats)]
            /\ UNCHANGED graph
       ELSE /\ graph' = b.graph
            /\ convSync' =
                 [convSync EXCEPT
                    !.offset = offset,
                    !.stats = stats,
                    !.reads = @ + 1,
                    !.log = Append(@, [offset |-> convSync.offset,
                                       n |-> Len(rows), bad |-> b.bad,
                                       synced |-> b.synced, failed |-> b.failed]),
                    !.pc = IF offset < convSync.total THEN "loop" ELSE "done",
                    !.result = IF offset < convSync.total THEN NoConvReport
                               ELSE Completed(stats)]
    /\ UNCHANGED rtConv
    /\ ConvFrame

\* sync_conversation_realtime(conversation_id)
sync_conversation_realtime(g, table, conversation_id, dbFault, failing) ==
    LET sel == SelectById(table, conversation_id) IN
    IF dbFault \/ ~sel.found THEN [graph |-> g, ret |-> FALSE]
    ELSE sync_conversation_to_graph(g, sel.row, sel.row.messages, failing)

RealtimeConversation(id, dbFault, kind) ==
    LET sel == SelectById(convs, id)
        failing == IF sel.found /\ ~dbFault THEN Failing(kind, sel.row) ELSE {}
        r == sync_conversation_realtime(graph, convs, id, dbFault, failing)
    IN
    /\ kind # "raise"
    /\ kind # "ok" => failing # {}
    /\ graph' = r.graph
    /\ rtConv' = [ret |-> r.ret, faulted |-> failing # {}]
    /\ UNCHANGED convSync
    /\ ConvFrame

INTENT == PyStr(<<"q">>)
STRATEGY == PyStr(<<"r">>)

\* The conversation with id i; the ids go through four shapes of row.
ConvShape(i) ==
    CASE i % 4 = 1 -> ConvRow(i, 1, "resolved", STRATEGY, PyInt(4),
                              <<Msg(10 * i, INTENT), Msg(10 * i + 1, PyNone)>>)
      [] i % 4 = 2 -> ConvRow(i, 1, "active", PyNone, PyNone, <<Msg(10 * i, PyNone)>>)
      [] i % 4 = 3 -> ConvRow(i, 1, "resolved", PyStr(<<>>), PyInt(4),
                              <<Msg(10 * i, INTENT)>>)
      [] OTHER -> ConvRow(i, 1, "resolved", STRATEGY, PyNone, <<>>)

ConvOutcomeSeqs == UNION { [1..n -> ConvFaults] : n \in 0..MaxBatch }

NextConv ==
    \/ \E b \in BatchSizes \cup BadBatchSizes, dbFault \in BOOLEAN :
          ConvFullStart(b, dbFault)
    \/ \E dbFault \in BOOLEAN, o \in ConvOutcomeSeqs : ConvWindow(dbFault, o)
    \/ \E i \in 1..MaxConvs, dbFault \in BOOLEAN, kind \in ConvFaults :
          RealtimeConversation(i, dbFault, kind)
    \/ \E gfault \in {"none", "transport"} : RealtimeCustomer(1, FALSE, gfault, "none")

\* One customer and n conversations of that customer; nothing projected yet.
InitConv ==
    /\ now = 0 /\ store = <<>> /\ lastOp = NoOp /\ written = <<>> /\ inv = NoInv
    /\ faultsOn = FALSE
    /\ customers = <<Row(1, <<"s", "1">>, 0)>>
    /\ graph = EmptyGraph
    /\ reader = Call("idle")
    /\ updater = Call("idle")
    /\ simReader = Call("idle")
    /\ graphSync = [Call("idle") EXCEPT !.held = {}]
    /\ hist = [dbEpoch |-> 0, dbReturned |-> 0, gEpoch |-> 0, gReturned |-> 0,
               merges |-> 0, origin |-> <<>>]
    /\ InitRuns
    /\ \E n \in 0..MaxConvs : convs = [i \in 1..n |-> ConvShape(i)]

SpecConv == InitConv /\ [][NextConv]_vars

\* The loop of full_sync_customers run to its end with no fault: the graph
\* it leaves.
RECURSIVE full_sync_run(_, _, _, _, _, _)
full_sync_run(g, s, t, table, offset, batch_size) ==
    LET rows == Window(table, offset, batch_size)
        b == sync_customer_batch(g, s, t, rows, [i \in 1..Len(rows) |-> "ok"])
    IN IF offset < Len(table) /\ rows # <<>>
       THEN full_sync_run(b.graph, b.store, t, table,
                          NextOffset(offset, batch_size), batch_size)
       ELSE g

\* The Customer nodes without their updated_at.
CustomerView(g) ==
    [i \in 1..Len(g.customers) |->
        [customer_id |-> g.customers[i].customer_id, attrs |-> g.customers[i].attrs]]

\* C6: in every reachable graph, for every customer record, calling
\* sync_customer_to_graph twice with the same record leaves the same graph as
\* calling it once, updated_at aside: both calls return True and there is
\* exactly one Customer node with that customer_id, holding the record's
\* attribute values.
C6_SyncIdempotent ==
    \A i \in 1..MaxRows, a \in AttrValues :
        LET data == Row(i, <<"s">> \o StrInt(i), a)
            once == sync_customer_to_graph(graph, store, now, data, "none", "none")
            twice == sync_customer_to_graph(once.graph, once.store, now + TickStep,
                                            data, "none", "none")
        IN /\ once.ret /\ twice.ret
           /\ CustomerView(twice.graph) = CustomerView(once.graph)
           /\ Cardinality(NodesOf(twice.graph, i)) = 1
           /\ \A k \in NodesOf(twice.graph, i) : twice.graph.customers[k].attrs = a

\* sync_customer_realtime returned True twice in a row for an unchanged row,
\* and the graph holds one node for it with the row's values.
C6_Witness ==
    /\ phase.s = "twice" /\ rt.ret
    /\ Cardinality(NodesOf(graph, phase.id)) = 1
    /\ \A k \in NodesOf(graph, phase.id) :
          graph.customers[k].attrs = SelectById(customers, phase.id).row.attrs

\* C7: from every reachable graph and table, a full sync, then a change of
\* one customer's row, then sync_customer_realtime of that customer (which
\* returns True) leaves the same Customer nodes, updated_at aside, as one full
\* sync run after the change.
C7_UpsertConvergence ==
    \A b \in BatchSizes :
      LET first == full_sync_run(graph, store, now, customers, 0, b) IN
      \A i \in 1..Len(customers), a \in AttrValues :
        LET id == customers[i].id
            changed == Stamp(UpdateRow(customers, id, a), id, now)
            again == sync_customer_realtime(first, store, now + TickStep, changed,
                                            id, FALSE, "none", "none")
            direct == full_sync_run(graph, store, now + TickStep, changed, 0, b)
        IN again.ret /\ CustomerView(again.graph) = CustomerView(direct)

\* A full sync completed with nothing failed, a row changed after it, the
\* real-time sync of that row returned True, and the graph is the projection
\* of the table.
C7_Witness ==
    /\ phase.s \in {"resynced", "twice"}
    /\ fullSync.pc = "done" /\ fullSync.result.completed
    /\ hist.dbEpoch > 0
    /\ CustomerView(graph) =
         [i \in 1..Len(customers) |->
             [customer_id |-> customers[i].id, attrs |-> customers[i].attrs]]

RECURSIVE SumSynced(_)
SumSynced(log) == IF log = <<>> THEN 0 ELSE Head(log).synced + SumSynced(Tail(log))

RECURSIVE SumFetched(_)
SumFetched(log) == IF log = <<>> THEN 0 ELSE Head(log).n + SumFetched(Tail(log))

\* C9: when the paged read of a window raises in full_sync_customers, the run
\* still ends with a completed report whose counts include what the other
\* windows synced.
C9_WindowFaultContinues ==
    (fullSync.pc = "done" /\ fullSync.dbFault = "window")
        => /\ fullSync.result.kind = "report"
           /\ fullSync.result.completed
           /\ fullSync.result.synced >= SumSynced(fullSync.log)

\* C10: a run of full_sync_customers whose relational reads succeed completes
\* with completed_at set whatever happens to single records: every record
\* that raised or whose upsert failed is counted once as failed, every other
\* record of every window once as synced, so synced + failed is the number of
\* records fetched, which is the number counted at the start.
C10_RecordFaultIsolation ==
    (fullSync.pc = "done" /\ fullSync.dbFault = "none")
        => /\ fullSync.result.kind = "report"
           /\ fullSync.result.completed
           /\ fullSync.result.batches = Len(fullSync.log)
           /\ \A w \in 1..Len(fullSync.log) :
                 /\ fullSync.log[w].failed = fullSync.log[w].bad
                 /\ fullSync.log[w].synced = fullSync.log[w].n - fullSync.log[w].bad
           /\ fullSync.result.synced = SumSynced(fullSync.log)
           /\ fullSync.result.synced + fullSync.result.failed = SumFetched(fullSync.log)
           /\ fullSync.batch_size > 0 => SumFetched(fullSync.log) = fullSync.total

\* Three windows; every record of the second one failed, the records of the
\* first and the third were synced.
C10_Witness ==
    /\ fullSync.pc = "done" /\ fullSync.dbFault = "none"
    /\ fullSync.result.completed
    /\ Len(fullSync.log) = 3
    /\ fullSync.log[1].bad = 0 /\ fullSync.log[3].bad = 0
    /\ fullSync.log[2].bad = fullSync.log[2].n
    /\ fullSync.result.failed = fullSync.log[2].n
    /\ fullSync.result.synced = fullSync.total - fullSync.log[2].n


\* C8: an entity for which a graph upsert failed is counted as failed and
\* never as synced by full_sync_customers and full_sync_conversations, and
\* sync_customer_realtime and sync_conversation_realtime return False for it.
C8_GraphFaultIsFailure ==
    /\ rt.faulted => ~rt.ret
    /\ rtConv.faulted => ~rtConv.ret
    /\ \A w \in 1..Len(fullSync.log) :
          fullSync.log[w].synced <= fullSync.log[w].n - fullSync.log[w].bad
    /\ \A w \in 1..Len(convSync.log) :
          convSync.log[w].synced <= convSync.log[w].n - convSync.log[w].bad


Ceil(n, b) == (n + b - 1) \div b

\* C11: a run of full_sync_customers with batch size B > 0 over N customers,
\* with no row changed during the run and no fault, reads its windows at
\* offsets 0, B, 2B, ..., each of B records except a shorter last one, has
\* read fewer than N records while it loops, and ends after ceil(N/B) windows
\* with synced_customers = N and failed_customers = 0.
C11_BatchCounts ==
    LET B == fullSync.batch_size
        N == fullSync.total
    IN (/\ B > 0 /\ ~fullSync.dirty /\ fullSync.dbFault = "none"
        /\ \A w \in 1..Len(fullSync.log) : fullSync.log[w].bad = 0)
       => /\ \A w \in 1..Len(fullSync.log) :
                /\ fullSync.log[w].offset = (w - 1) * B
                /\ fullSync.log[w].n = IF w * B <= N THEN B ELSE N - (w - 1) * B
          /\ fullSync.pc = "loop" => Len(fullSync.log) * B < N
          /\ fullSync.pc = "done" =>
                /\ N = Len(customers)
                /\ fullSync.result.kind = "report"
                /\ fullSync.result.completed
                /\ Len(fullSync.log) = Ceil(N, B)
                /\ fullSync.result.batches = Ceil(N, B)
                /\ fullSync.result.synced = N
                /\ fullSync.result.failed = 0

\* Three customers in batches of two: windows of 2 and 1, all synced.
C11_Witness ==
    /\ fullSync.pc = "done" /\ fullSync.batch_size = 2 /\ fullSync.total = 3
    /\ ~fullSync.dirty /\ fullSync.dbFault = "none"
    /\ Len(fullSync.log) = 2
    /\ fullSync.log[1].n = 2 /\ fullSync.log[2].n = 1
    /\ fullSync.result.batches = 2
    /\ fullSync.result.synced = 3 /\ fullSync.result.failed = 0

\* C12: a run of full_sync_customers or full_sync_conversations started with
\* batch_size <= 0 issues no read against the relational store, writes
\* nothing to the graph, and ends with a failure result.
C12_BatchSizeRejected ==
    /\ (fullSync.pc # "idle" /\ fullSync.batch_size <= 0)
          => /\ fullSync.reads = 0
             /\ fullSync.pc = "done" /\ fullSync.result.kind = "error"
    /\ (convSync.pc # "idle" /\ convSync.batch_size <= 0)
          => /\ convSync.reads = 0
             /\ convSync.pc = "done" /\ convSync.result.kind = "error"


----------------------------------------------------------------------------
(* One conversation of every shape of row, projected by the conversation
   syncs. *)

\* The rows a conversation with id 1 of customer 1 may be.
ShapeRows ==
    { ConvRow(1, 1, status, resolution, rating, messages) :
        status \in {"active", "resolved"},
        resolution \in {PyNone, PyStr(<<>>), STRATEGY},
        rating \in {PyNone, PyInt(4)},
        messages \in {<<>>, <<Msg(10, INTENT)>>, <<Msg(10, PyNone)>>} }

InitShape ==
    /\ now = 0 /\ store = <<>> /\ lastOp = NoOp /\ written = <<>> /\ inv = NoInv
    /\ faultsOn = FALSE
    /\ customers = <<Row(1, <<"s", "1">>, 0)>>
    /\ graph = EmptyGraph
    /\ reader = Call("idle")
    /\ updater = Call("idle")
    /\ simReader = Call("idle")
    /\ graphSync = [Call("idle") EXCEPT !.held = {}]
    /\ hist = [dbEpoch |-> 0, dbReturned |-> 0, gEpoch |-> 0, gReturned |-> 0,
               merges |-> 0, origin |-> <<>>]
    /\ InitRuns
    /\ \E row \in ShapeRows : convs = <<row>>

SpecShape == InitShape /\ [][NextConv]_vars

\* The Resolution nodes reached from the conversation by RESOLVED_WITH.
ResolutionsOf(g, conversation_id) ==
    {k \in 1..Len(g.resolutions) : g.resolutions[k].conversation_id = conversation_id}

\* C14: whenever sync_conversation_to_graph has projected a conversation with
\* no store fault and its Conversation node is in the graph, the conversation
\* has a Resolution node and RESOLVED_WITH edge iff its status is "resolved"
\* and its resolution string is non-empty.
C14_ResolutionIff ==
    \A k \in 1..Len(convs) :
        LET row == convs[k]
            r == sync_conversation_to_graph(graph, row, row.messages, {})
        IN ConvsOf(r.graph, row.id) # {}
              => (ResolutionsOf(r.graph, row.id) # {}
                    <=> (/\ row.status = "resolved"
                         /\ row.resolution # PyNone
                         /\ row.resolution # PyStr(<<>>)))

----------------------------------------------------------------------------
(* ETLService.incremental_sync and its callers. *)

Hour == 3600

\* if not since: since = datetime.utcnow() - timedelta(hours=1)
DefaultSince(since, t) == IF Truthy(since) THEN since ELSE PyDatetime(t - Hour)

\* column >= since with > in its place.
NotBefore_strict(value, since) == value.t = "datetime" /\ value.v > since.v

\* The filter `column >= since` of the relational store: a NULL column
\* satisfies no comparison.
NotBefore(value, since) == value.t = "datetime" /\ value.v >= since.v

\* db.query(Customer).filter(Customer.updated_at >= since).all()
RecentCustomers(table, since) ==
    LET Recent(row) == NotBefore(row.updated_at, since) IN SelectSeq(table, Recent)

\* db.query(Conversation).filter(Conversation.started_at >= since).all()
RecentConversations(table, since) ==
    LET Recent(row) == NotBefore(row.started_at, since) IN SelectSeq(table, Recent)

Ids(rows) == {rows[i].id : i \in 1..Len(rows)}

\* The `since` each caller passes: the loops pass none.
Sinces(c) ==
    IF c = "direct" THEN {PyDatetime(t) : t \in {0, TickStep, 2 * TickStep}}
    ELSE {PyNone}

\* except Exception as e: return {"error": str(e)}
IncErrorReport == [NoIncReport EXCEPT !.kind = "error"]

EngineFrame == UNCHANGED <<lastOp, written, inv, faultsOn, reader, updater,
                           simReader, graphSync, hist, fullSync, rt, phase,
                           convSync, rtConv, worker>>

\* incremental_sync(since) up to its second read: the default of since, the
\* read of the recently updated customers, `if recent_customers:` the batch.
IncCustomers(c, since, dbFault, outcomes) ==
    LET from == DefaultSince(since, now)
        rows == RecentCustomers(customers, from)
        b == sync_customer_batch(graph, store, now, rows, outcomes)
    IN
    /\ inc[c].pc = IF c = "scheduler" THEN "idle" ELSE inc[c].pc
    /\ inc[c].pc \in {"idle", "done"}
    /\ since \in Sinces(c)
    /\ IF dbFault THEN outcomes = <<>> ELSE DOMAIN outcomes = 1..Len(rows)
    /\ IF dbFault
       THEN /\ inc' = [inc EXCEPT ![c] = [NoIncRun EXCEPT !.pc = "done", !.since = from,
                                                          !.result = IncErrorReport,
                                                          !.clean = FALSE]]
            /\ UNCHANGED <<graph, store>>
       ELSE /\ inc' = [inc EXCEPT ![c] =
                          [NoIncRun EXCEPT
                             !.pc = "conversations", !.since = from,
                             !.customers = Ids(rows),
                             !.clean = \A i \in 1..Len(rows) : outcomes[i] = "ok",
                             !.result = [NoIncReport EXCEPT
                                           !.customers_synced = b.synced]]]
            /\ graph' = b.graph
            /\ store' = b.store
    /\ UNCHANGED <<now, customers, convs, sys, integrity, syncStatus>>
    /\ EngineFrame

\* incremental_sync from its second read on: the read of the recently
\* started conversations, the projection of each, the report.
IncConversations(c, dbFault, outcomes) ==
    LET rows == RecentConversations(convs, inc[c].since)
        b == sync_conversation_window(graph, rows, outcomes)
    IN
    /\ inc[c].pc = "conversations"
    /\ IF dbFault THEN outcomes = <<>> ELSE DOMAIN outcomes = 1..Len(rows)
    /\ IF dbFault
       THEN /\ inc' = [inc EXCEPT ![c].pc = "done", ![c].result = IncErrorReport,
                                  ![c].clean = FALSE]
            /\ UNCHANGED graph
       ELSE /\ inc' = [inc EXCEPT
                         ![c].pc = "done",
                         ![c].conversations = Ids(rows),
                         ![c].clean = @ /\ \A i \in 1..Len(rows) : outcomes[i] = "ok",
                         ![c].result = [@ EXCEPT !.kind = "report",
                                                 !.conversations_synced = b.synced]]
            /\ graph' = b.graph
    /\ UNCHANGED <<now, store, customers, convs, sys, integrity, syncStatus>>
    /\ EngineFrame

LAST_INCREMENTAL_SYNC == <<"last_incremental_sync">>
LAST_FULL_SYNC == <<"last_full_sync">>
CHECKPOINT_TTL == 86400

\* schedule_automatic_sync after `result = await self.incremental_sync()`:
\* await self.cache.redis.set("last_incremental_sync", ..., 86400)
IncStamp(fault) ==
    LET r == RedisClient_set(store, now, LAST_INCREMENTAL_SYNC,
                             PyStr(StrDatetime(now)), PyInt(CHECKPOINT_TTL), fault)
    IN
    /\ inc["scheduler"].pc = "done"
    /\ store' = r.store
    /\ inc' = [inc EXCEPT !["scheduler"].pc = "idle", !["scheduler"].stamped = r.ret]
    /\ UNCHANGED <<now, graph, customers, convs, sys, integrity, syncStatus>>
    /\ EngineFrame

\* A conversation starts: started_at = Column(server_default=func.now()).
StartConversation ==
    LET i == Len(convs) + 1 IN
    /\ i <= MaxConvs
    /\ convs' = Append(convs, [ConvShape(i) EXCEPT !.started_at = PyDatetime(now)])
    /\ UNCHANGED <<now, store, graph, customers, inc, sys, integrity, syncStatus>>
    /\ EngineFrame

MaxIncRows == 2

\* One caller passing `since`, with rows that change and time that passes.
NextInc ==
    \/ \E since \in Sinces("direct"), dbFault \in BOOLEAN, o \in Outcomes :
          IncCustomers("direct", since, dbFault, o)
    \/ \E dbFault \in BOOLEAN, o \in ConvOutcomeSeqs :
          IncConversations("direct", dbFault, o)
    \/ StartConversation
    \/ \E i \in 1..MaxIncRows, a \in AttrValues : ChangeRow(i, a)
    \/ Tick

\* n customers never updated, no conversation, nothing projected yet.
InitInc ==
    /\ now = 0 /\ store = <<>> /\ lastOp = NoOp /\ written = <<>> /\ inv = NoInv
    /\ faultsOn = FALSE
    /\ \E n \in 0..MaxIncRows :
          customers = [i \in 1..n |-> Row(i, <<"s">> \o StrInt(i), 0)]
    /\ graph = EmptyGraph
    /\ reader = Call("idle")
    /\ updater = Call("idle")
    /\ simReader = Call("idle")
    /\ graphSync = [Call("idle") EXCEPT !.held = {}]
    /\ hist = [dbEpoch |-> 0, dbReturned |-> 0, gEpoch |-> 0, gReturned |-> 0,
               merges |-> 0, origin |-> <<>>]
    /\ InitRuns
    /\ convs = <<>>

SpecInc == InitInc /\ [][NextInc]_vars

\* The nodes and edges of the graph that belong to a conversation.
ConversationView(g, conversation_id) ==
    [nodes |-> {g.conversations[k] : k \in ConvsOf(g, conversation_id)},
     messages |-> {g.messages[k] : k \in {k \in 1..Len(g.messages) :
                                             g.messages[k].conversation_id = conversation_id}},
     discussed |-> {e \in g.discussed : e[1] = conversation_id},
     resolutions |-> {g.resolutions[k] : k \in ResolutionsOf(g, conversation_id)}]

\* The first half of a call by the direct caller with no fault: the customers
\* with updated_at >= since, and no other, are written; the count is theirs.
CustomersStep ==
    LET call == inc'["direct"]
        recent == {i \in 1..Len(customers) :
                      /\ customers[i].updated_at # PyNone
                      /\ customers[i].updated_at.v >= call.since.v}
    IN (inc["direct"].pc # "conversations" /\ call.pc = "conversations" /\ call.clean)
       => /\ call.customers = {customers[i].id : i \in recent}
          /\ call.result.customers_synced = Cardinality(recent)
          /\ \A i \in 1..Len(customers) :
                LET before == {graph.customers[k] : k \in NodesOf(graph, customers[i].id)}
                    after == {graph'.customers[k] : k \in NodesOf(graph', customers[i].id)}
                IN IF i \in recent
                   THEN after = {[customer_id |-> customers[i].id,
                                  attrs |-> customers[i].attrs, updated_at |-> now]}
                   ELSE after = before
          /\ Len(graph'.customers) = Len(graph.customers)
                + Cardinality({i \in recent : NodesOf(graph, customers[i].id) = {}})
          /\ [graph' EXCEPT !.customers = <<>>] = [graph EXCEPT !.customers = <<>>]
          /\ recent = {} => graph' = graph

\* The second half: the conversations with started_at >= since, and no other,
\* are projected; the count is theirs; the report carries no error.
ConversationsStep ==
    LET call == inc'["direct"]
        recent == {i \in 1..Len(convs) : convs[i].started_at.v >= call.since.v}
    IN (inc["direct"].pc = "conversations" /\ call.pc = "done" /\ call.clean)
       => /\ call.conversations = {convs[i].id : i \in recent}
          /\ call.result.kind = "report"
          /\ call.result.conversations_synced = Cardinality(recent)
          /\ call.result.customers_synced = inc["direct"].result.customers_synced
          /\ \A i \in 1..Len(convs) :
                IF i \in recent
                THEN NodesOf(graph, convs[i].customer_id) # {}
                        => \E k \in ConvsOf(graph', convs[i].id) :
                              /\ graph'.conversations[k].status = convs[i].status
                              /\ graph'.conversations[k].customer_id = convs[i].customer_id
                ELSE ConversationView(graph', convs[i].id)
                        = ConversationView(graph, convs[i].id)
          /\ graph'.customers = graph.customers
          /\ recent = {} => graph' = graph
          /\ (recent = {} /\ call.customers = {})
                => /\ call.result.customers_synced = 0
                   /\ call.result.conversations_synced = 0

\* C13: a call of incremental_sync(since) that no fault strikes projects
\* the customers whose updated_at >= since and the conversations whose
\* started_at >= since and leaves what the graph holds of every other row as
\* it was; when no row satisfies the predicate the graph is not written and
\* the call returns a report with customers_synced = 0,
\* conversations_synced = 0 and no error.
C13_IncrementalPredicate == [][CustomersStep /\ ConversationsStep]_vars

\* A call with since = TickStep has returned: customer 1, updated at
\* TickStep, was picked, the customer never updated was not, nor was the
\* conversation started at 0.
C13_Witness ==
    /\ inc["direct"].pc = "done" /\ inc["direct"].clean
    /\ inc["direct"].since = PyDatetime(TickStep)
    /\ Len(customers) = 2 /\ Len(convs) = 1
    /\ customers[1].updated_at = PyDatetime(TickStep)
    /\ customers[2].updated_at = PyNone
    /\ convs[1].started_at = PyDatetime(0)
    /\ inc["direct"].customers = {1} /\ inc["direct"].conversations = {}
    /\ inc["direct"].result
          = [kind |-> "report", customers_synced |-> 1, conversations_synced |-> 0]
    /\ NodesOf(graph, 1) # {} /\ NodesOf(graph, 2) = {}

----------------------------------------------------------------------------
(* ETLService.validate_sync_integrity: the report computed from the counts. *)

\* round(x, 2) of the quotient n / d, in hundredths: the nearest hundredth,
\* the even one of two equally near.
RoundHalfEven(n, d) ==
    LET q == n \div d
        twice == 2 * (n % d)
    IN IF twice < d THEN q
       ELSE IF twice > d THEN q + 1
       ELSE IF q % 2 = 0 THEN q ELSE q + 1

\* integrity_report["sync_percentages"][entity], in hundredths of a percent:
\* round((neo4j_count / pg_count) * 100, 2) if pg_count > 0 else 100.0
sync_percentage(neo4j_count, pg_count) ==
    IF pg_count > 0 THEN RoundHalfEven(10000 * neo4j_count, pg_count) ELSE 10000

\* `if sync_percentage < 95:` with <= in its place.
NeedsSync_le(neo4j_count, pg_count) ==
    pg_count > 0 /\ 100 * neo4j_count <= 95 * pg_count

\* `if pg_count > 0: ... if sync_percentage < 95:` on the quotient before it
\* is rounded.
NeedsSync(neo4j_count, pg_count) ==
    pg_count > 0 /\ 100 * neo4j_count < 95 * pg_count

\* The report validate_sync_integrity builds from the two sets of counts.
integrity_report(pg_counts, neo4j_counts, live) ==
    [kind |-> "report", pg_counts |-> pg_counts, neo4j_counts |-> neo4j_counts,
     percentages |-> [e \in EntityKinds |-> sync_percentage(neo4j_counts[e], pg_counts[e])],
     recommendations |-> {e \in EntityKinds : NeedsSync(neo4j_counts[e], pg_counts[e])},
     live |-> live, clean |-> TRUE]

\* Counts of rows and of nodes: none, a few, 19 of 20, 28499 of 30000.
Counts == {0, 1, 2, 3, 19, 20, 28499, 30000}
FewCounts == {0, 1, 3}

\* The report of the counts drawn.
ReportCounts ==
    /\ integrity.kind = "input"
    /\ integrity' = integrity_report(integrity.pg_counts, integrity.neo4j_counts,
                                     integrity.neo4j_counts)
    /\ UNCHANGED <<now, store, graph, customers, convs, inc, sys, syncStatus>>
    /\ EngineFrame

\* The two stores hold any of the counts of one entity kind and a few of the
\* others.
InitIntegrity ==
    /\ now = 0 /\ store = <<>> /\ lastOp = NoOp /\ written = <<>> /\ inv = NoInv
    /\ faultsOn = FALSE
    /\ customers = <<>>
    /\ graph = EmptyGraph
    /\ reader = Call("idle")
    /\ updater = Call("idle")
    /\ simReader = Call("idle")
    /\ graphSync = [Call("idle") EXCEPT !.held = {}]
    /\ hist = [dbEpoch |-> 0, dbReturned |-> 0, gEpoch |-> 0, gReturned |-> 0,
               merges |-> 0, origin |-> <<>>]
    /\ fullSync = NoRun
    /\ rt = NoRealtime
    /\ phase = [s |-> "none", id |-> 0]
    /\ convSync = NoConvRun
    /\ rtConv = NoRealtime
    /\ inc = [c \in Callers |-> NoIncRun]
    /\ sys = [o \in Operators |-> NoSysRun]
    /\ syncStatus = NoStatus
    /\ worker = NoWorker
    /\ convs = <<>>
    /\ \E focus \in EntityKinds :
          \E pg \in [EntityKinds -> Counts], neo \in [EntityKinds -> Counts] :
             /\ \A e \in EntityKinds \ {focus} :
                   pg[e] \in FewCounts /\ neo[e] \in FewCounts
             /\ integrity = [NoIntegrity EXCEPT !.kind = "input", !.pg_counts = pg,
                                                !.neo4j_counts = neo]

SpecIntegrity == InitIntegrity /\ [][ReportCounts]_vars

\* C15 as the specification states it: the percentage reported is the
\* quotient itself.
C15_ExactPercentage ==
    integrity.kind = "report" =>
        \A e \in EntityKinds :
            LET pg == integrity.pg_counts[e]
                neo == integrity.neo4j_counts[e]
            IN /\ pg = 0 => integrity.percentages[e] = 10000
               /\ pg > 0 => integrity.percentages[e] * pg = 10000 * neo
               /\ e \in integrity.recommendations
                     <=> (pg > 0 /\ 100 * neo < 95 * pg)

\* C15: for every entity kind and every pair of counts the report of
\* validate_sync_integrity carries sync_percentage = 100.0 when the
\* relational count is 0 and otherwise (graph_count / relational_count) * 100
\* rounded to the nearest hundredth; it recommends a full sync of the entity
\* iff the relational count is positive and the quotient, before rounding,
\* is below 95.
C15_RoundedPercentage ==
    integrity.kind = "report" =>
        \A e \in EntityKinds :
            LET pg == integrity.pg_counts[e]
                neo == integrity.neo4j_counts[e]
                off == integrity.percentages[e] * pg - 10000 * neo
            IN /\ pg = 0 => integrity.percentages[e] = 10000
               /\ pg > 0 => (2 * off <= pg /\ -2 * off <= pg)
               /\ e \in integrity.recommendations
                     <=> (pg > 0 /\ 100 * neo < 95 * pg)

\* Reported: 1 of 3 customers is 33.33, 19 of 20 conversations is 95.0 with
\* no recommendation, no message at all is 100.0.
C15_Witness ==
    /\ integrity.kind = "report"
    /\ integrity.pg_counts = [customers |-> 3, conversations |-> 20, messages |-> 0]
    /\ integrity.neo4j_counts = [customers |-> 1, conversations |-> 19, messages |-> 0]
    /\ integrity.percentages
          = [customers |-> 3333, conversations |-> 9500, messages |-> 10000]
    /\ integrity.recommendations = {"customers"}

----------------------------------------------------------------------------
(* GraphService.get_graph_analytics, ETLService.validate_sync_integrity and
   ETLService.get_sync_status on the stores. *)

GRAPH_ANALYTICS == <<"graph_analytics">>
ANALYTICS_TTL == 3600

\* The label of the nodes of each entity kind.
Label(e) ==
    CASE e = "customers" -> PyStr(<<"Customer">>)
      [] e = "conversations" -> PyStr(<<"Conversation">>)
      [] OTHER -> PyStr(<<"Message">>)

\* The nodes the graph holds of each entity kind.
LiveCounts(g) ==
    [customers |-> Len(g.customers), conversations |-> Len(g.conversations),
     messages |-> Len(g.messages)]

\* MATCH (n) RETURN labels(n) as label, count(n) as count: a record for
\* every label that has a node, as [label, count].
CypherNodeCounts(g) ==
    LET live == LiveCounts(g)
        Record(e) == IF live[e] > 0 THEN <<PyList(<<Label(e), PyInt(live[e])>>)>>
                     ELSE <<>>
    IN [graph |-> g,
        records |-> Record("customers") \o Record("conversations") \o Record("messages")]

\* get_graph_analytics: the cached analytics if the cache has them, else
\* the analytics queries, cached for an hour; the analytics are the list of
\* their results, of which the model keeps node_counts.
get_graph_analytics(g, s, t, fget, gfault, fset) ==
    LET cached_analytics == RedisClient_get(s, GRAPH_ANALYTICS, fget).ret
        results == execute_query(g, CypherNodeCounts(g), gfault).records
        analytics == PyList(<<PyList(results)>>)
        c == RedisClient_set(s, t, GRAPH_ANALYTICS, analytics, PyInt(ANALYTICS_TTL), fset)
    IN IF Truthy(cached_analytics)
       THEN [store |-> s, analytics |-> cached_analytics]
       ELSE [store |-> c.store, analytics |-> analytics]

\* `for record in neo4j_analytics["node_counts"]:` from record k on, for the
\* entity kind e: the last count under its label, else the count so far.
RECURSIVE CountOf(_, _, _, _)
CountOf(node_counts, e, k, sofar) ==
    IF k > Len(node_counts) THEN sofar
    ELSE CountOf(node_counts, e, k + 1,
                 IF node_counts[k].v[1] = Label(e) THEN node_counts[k].v[2].v
                 ELSE sofar)

\* neo4j_counts as validate_sync_integrity extracts them from the analytics.
neo4j_counts_of(analytics) ==
    [e \in EntityKinds |-> CountOf(analytics.v[1].v, e, 1, 0)]

\* db.query(Customer).count(), db.query(Conversation).count(),
\* db.query(Message).count()
pg_counts_of(customer_table, conversation_table) ==
    [customers |-> Len(customer_table),
     conversations |-> Len(conversation_table),
     messages |-> Cardinality(UNION {
                     {<<i, j>> : j \in 1..Len(conversation_table[i].messages)} :
                        i \in 1..Len(conversation_table)})]

\* validate_sync_integrity without its except clause: the exception reaches
\* the caller.
IntegrityError_raised == [NoIntegrity EXCEPT !.kind = "raised"]

\* except Exception as e: return {"error": str(e)}
IntegrityError == [NoIntegrity EXCEPT !.kind = "error"]

\* validate_sync_integrity()
validate_sync_integrity(g, s, t, rows, conversations, dbFault, fget, gfault, fset) ==
    LET a == get_graph_analytics(g, s, t, fget, gfault, fset) IN
    IF dbFault THEN [store |-> s, report |-> IntegrityError]
    ELSE [store |-> a.store,
          report |-> integrity_report(pg_counts_of(rows, conversations),
                                      neo4j_counts_of(a.analytics), LiveCounts(g))]

ValidateIntegrity(dbFault, fget, gfault, fset) ==
    LET r == validate_sync_integrity(graph, store, now, customers, convs,
                                     dbFault, fget, gfault, fset) IN
    /\ store' = r.store
    /\ integrity' = [r.report EXCEPT !.clean = gfault = "none"]
    /\ UNCHANGED <<now, graph, customers, convs, inc, sys, syncStatus>>
    /\ EngineFrame

\* get_sync_status(): the connection probe, the two checkpoint keys, the
\* integrity report, the recommendations ("neo4j", "full_sync", "integrity").
GetSyncStatus(dbFault, fkeys, fget, gfault, fset) ==
    LET last_full_sync == RedisClient_get(store, LAST_FULL_SYNC, fkeys).ret
        last_incremental_sync == RedisClient_get(store, LAST_INCREMENTAL_SYNC, fkeys).ret
        r == validate_sync_integrity(graph, store, now, customers, convs,
                                     dbFault, fget, gfault, fset)
        customers_percentage == IF r.report.kind = "report"
                                THEN r.report.percentages["customers"] ELSE 0
    IN
    /\ store' = r.store
    /\ integrity' = [r.report EXCEPT !.clean = gfault = "none"]
    /\ syncStatus' =
          [kind |-> "report",
           neo4j_connected |-> gfault = "none",
           full_sync |-> last_full_sync,
           incremental_sync |-> last_incremental_sync,
           recommendations |->
              (IF gfault # "none" THEN {"neo4j"} ELSE {})
              \cup (IF ~Truthy(last_full_sync) THEN {"full_sync"}
                    ELSE IF customers_percentage < 9000 THEN {"integrity"}
                    ELSE {})]
    /\ UNCHANGED <<now, graph, customers, convs, inc, sys>>
    /\ EngineFrame

\* A store is available to a call or its transport fails.
StoreFaults == {"none", "transport"}

\* The integrity report and the status asked for while real-time syncs write
\* the graph and time passes.
NextStatus ==
    \/ \E dbFault \in BOOLEAN, fget \in StoreFaults, gfault \in StoreFaults,
          fset \in StoreFaults : ValidateIntegrity(dbFault, fget, gfault, fset)
    \/ \E dbFault \in BOOLEAN, fkeys \in StoreFaults, fget \in StoreFaults,
          gfault \in StoreFaults, fset \in StoreFaults :
          GetSyncStatus(dbFault, fkeys, fget, gfault, fset)
    \/ \E gfault \in StoreFaults : RealtimeCustomer(1, FALSE, gfault, "none")
    \/ \E i \in 1..MaxConvs : RealtimeConversation(i, FALSE, "ok")
    \/ Tick

SpecStatus == InitConv /\ [][NextStatus]_vars

\* C16: the graph counts of every integrity report made with the graph store
\* available are the counts of the nodes the graph held during the call.
C16_LiveCounts ==
    (integrity.kind = "report" /\ integrity.clean)
        => integrity.neo4j_counts = integrity.live

----------------------------------------------------------------------------
(* ETLService.full_system_sync and the loops that call incremental_sync. *)

DEFAULT_CUSTOMER_BATCH == 100
DEFAULT_CONVERSATION_BATCH == 50

\* The totals of one batch added to those of the batches after it.
customers_tally(rest, b) ==
    [rest EXCEPT !.synced = @ + b.synced, !.failed = @ + b.failed, !.batches = @ + 1]

\* `while offset < total_customers:` of full_sync_customers run to its end;
\* every record meets outcome.
RECURSIVE customers_loop(_, _, _, _, _, _, _)
customers_after(b, t, table, offset, batch_size, outcome) ==
    customers_tally(customers_loop(b.graph, b.store, t, table,
                                   NextOffset(offset, batch_size), batch_size, outcome), b)

customers_batch(g, s, t, rows, table, offset, batch_size, outcome) ==
    IF offset < Len(table) /\ rows # <<>>
    THEN customers_after(sync_customer_batch(g, s, t, rows,
                                             [i \in 1..Len(rows) |-> outcome]),
                         t, table, offset, batch_size, outcome)
    ELSE [graph |-> g, store |-> s, synced |-> 0, failed |-> 0, batches |-> 0]

customers_loop(g, s, t, table, offset, batch_size, outcome) ==
    customers_batch(g, s, t, Window(table, offset, batch_size), table, offset,
                    batch_size, outcome)

\* The return value of full_sync_customers after its loop.
customers_result(run) ==
    [graph |-> run.graph, store |-> run.store,
     result |-> Completed([NoReport EXCEPT !.synced = run.synced,
                                           !.failed = run.failed,
                                           !.batches = run.batches])]

\* full_sync_customers(batch_size) from call to return; dbFault is "none",
\* "count" (the count query raises) or "window" (the first paged read raises).
full_sync_customers(g, s, t, table, batch_size, dbFault, outcome) ==
    IF dbFault = "count" \/ (dbFault = "window" /\ Len(table) > 0)
    THEN [graph |-> g, store |-> s, result |-> ErrorReport]
    ELSE customers_result(customers_loop(g, s, t, table, 0, batch_size, outcome))

\* The totals of one window added to those of the windows after it.
conversations_tally(rest, b) ==
    [rest EXCEPT !.synced = @ + b.synced, !.failed = @ + b.failed,
                 !.synced_messages = @ + b.synced_messages]

\* `while offset < total_conversations:` of full_sync_conversations run to
\* its end; every conversation meets kind.
RECURSIVE conversations_loop(_, _, _, _, _)
conversations_after(b, table, offset, batch_size, kind) ==
    conversations_tally(conversations_loop(b.graph, table,
                                           NextOffset(offset, batch_size),
                                           batch_size, kind), b)

conversations_batch(g, rows, table, offset, batch_size, kind) ==
    IF offset < Len(table) /\ rows # <<>>
    THEN conversations_after(sync_conversation_window(g, rows,
                                                      [i \in 1..Len(rows) |-> kind]),
                             table, offset, batch_size, kind)
    ELSE [graph |-> g, synced |-> 0, failed |-> 0, synced_messages |-> 0]

conversations_loop(g, table, offset, batch_size, kind) ==
    conversations_batch(g, Window(table, offset, batch_size), table, offset,
                        batch_size, kind)

\* The return value of full_sync_conversations after its loop.
conversations_result(run) ==
    [graph |-> run.graph,
     result |-> Completed([NoConvReport EXCEPT
                              !.synced = run.synced, !.failed = run.failed,
                              !.synced_messages = run.synced_messages])]

\* full_sync_conversations(batch_size) from call to return.
full_sync_conversations(g, table, batch_size, dbFault, kind) ==
    IF dbFault = "count" \/ (dbFault = "window" /\ Len(table) > 0)
    THEN [graph |-> g, result |-> ConvErrorReport]
    ELSE conversations_result(conversations_loop(g, table, 0, batch_size, kind))

DbFaults == {"none", "count", "window"}

\* What sync_knowledge_base does: it returns its statistics, returns a dict
\* with the key "error", or raises.
KnowledgeOutcomes == {"report", "error", "raise"}

\* full_system_sync() is called: sync_results is built.
SysStart(o) ==
    /\ sys[o].pc \in {"idle", "done"}
    /\ sys' = [sys EXCEPT ![o] = [NoSysRun EXCEPT !.pc = "running"]]
    /\ UNCHANGED <<now, store, graph, customers, convs, inc, integrity, syncStatus>>
    /\ EngineFrame

\* The end of full_system_sync(): the check of the three results, the
\* checkpoint key and the return; c and v are what the two full syncs
\* returned, stamp the write of the checkpoint key.
SysReturn(o, c, v, knowledge, stamp) ==
    /\ graph' = v.graph
    /\ IF knowledge = "raise"
       THEN /\ store' = c.store
            /\ sys' = [sys EXCEPT ![o] = [pc |-> "done", overall_success |-> FALSE,
                                          error |-> TRUE, stamped |-> FALSE]]
       ELSE /\ store' = stamp.store
            /\ sys' = [sys EXCEPT ![o] = [pc |-> "done",
                                          overall_success |->
                                              /\ c.result.kind # "error"
                                              /\ v.result.kind # "error"
                                              /\ knowledge # "error",
                                          error |-> FALSE, stamped |-> stamp.ret]]

\* full_system_sync() after full_sync_customers returned c.
SysAfterCustomers(o, c, conversationFault, kind, knowledge, fault) ==
    SysReturn(o, c,
              full_sync_conversations(c.graph, convs, DEFAULT_CONVERSATION_BATCH,
                                      conversationFault, kind),
              knowledge,
              RedisClient_set(c.store, now, LAST_FULL_SYNC, PyStr(StrDatetime(now)),
                              PyInt(CHECKPOINT_TTL), fault))

\* full_system_sync() from its try to its return: the three syncs, the check
\* of their results, the checkpoint key.
SysFinish(o, customerFault, outcome, conversationFault, kind, knowledge, fault) ==
    /\ sys[o].pc = "running"
    /\ knowledge = "raise" => fault = "none"
    /\ SysAfterCustomers(o, full_sync_customers(graph, store, now, customers,
                                                DEFAULT_CUSTOMER_BATCH,
                                                customerFault, outcome),
                         conversationFault, kind, knowledge, fault)
    /\ UNCHANGED <<now, customers, convs, inc, integrity, syncStatus>>
    /\ EngineFrame

\* The sequences of outcomes in which no record meets a fault.
NoFaults == {[i \in 1..n |-> "ok"] : n \in 0..MaxIncRows}

\* The worker loop and the scheduler call incremental_sync and two operators
\* call full_system_sync over one customer and its conversations; the only
\* faults are those of the relational reads, of sync_knowledge_base and of
\* the checkpoint write.
NextLoops ==
    \/ \E c \in {"worker", "scheduler"}, dbFault \in BOOLEAN, o \in NoFaults :
          IncCustomers(c, PyNone, dbFault, o)
    \/ \E c \in {"worker", "scheduler"}, dbFault \in BOOLEAN, o \in NoFaults :
          IncConversations(c, dbFault, o)
    \/ \E f \in {"none", "transport"} : IncStamp(f)
    \/ \E o \in Operators : SysStart(o)
    \/ \E o \in Operators, customerFault \in {"none", "count"},
          knowledge \in KnowledgeOutcomes, f \in {"none", "transport"} :
          SysFinish(o, customerFault, "ok", "none", "ok", knowledge, f)

SpecLoops == InitConv /\ [][NextLoops]_vars

\* C17: the scheduler has written last_incremental_sync only after an
\* incremental_sync that returned no error, and a call of full_system_sync
\* has written last_full_sync only when no component reported an error.
C17_CheckpointAfterSuccess ==
    /\ inc["scheduler"].stamped => inc["scheduler"].result.kind = "report"
    /\ \A o \in Operators : sys[o].stamped => sys[o].overall_success

\* C18: at no time are two calls of incremental_sync running, nor two calls
\* of full_system_sync.
C18_NoOverlap ==
    /\ Cardinality({c \in Callers : inc[c].pc = "conversations"}) <= 1
    /\ Cardinality({o \in Operators : sys[o].pc = "running"}) <= 1

----------------------------------------------------------------------------
(* Real-time sync of a customer whose graph results are cached. *)

\* find_similar_customers and find_customer_success_patterns cache their
\* results for customer 1, sync_customer_realtime(1) and
\* sync_conversation_realtime run, time passes.
NextRt ==
    \/ \E v \in InvResults, f \in Faults : InvCacheGraph(1, SIMILAR, v, f)
    \/ \E v \in InvResults, f \in Faults : InvOtherSet(SuccessKey(1), v, f)
    \/ \E dbFault \in BOOLEAN, gfault \in {"none", "transport"}, cfault \in Faults :
          RealtimeCustomer(1, dbFault, gfault, cfault)
    \/ \E i \in 1..MaxConvs, dbFault \in BOOLEAN, kind \in ConvFaults :
          RealtimeConversation(i, dbFault, kind)
    \/ Tick

SpecRt == InitConv /\ [][NextRt]_vars

\* C19: when sync_customer_realtime(1) returns True, neither
\* graph:similar_customers:1 nor success_patterns:1 is in the cache any more.
\* (No cache entry is keyed by the id of a conversation.)
C19_RealtimeInvalidates ==
    [][((\E dbFault \in BOOLEAN, gfault \in {"none", "transport"}, cfault \in Faults :
            RealtimeCustomer(1, dbFault, gfault, cfault)) /\ rt'.ret)
          => /\ GraphKey(SIMILAR, 1) \notin DOMAIN store'
             /\ SuccessKey(1) \notin DOMAIN store']_vars

----------------------------------------------------------------------------
(* The public entry points of ETLService under faults of the three stores. *)

\* No call is in progress and no result is held.
Quiet ==
    /\ fullSync = NoRun /\ convSync = NoConvRun
    /\ inc = [c \in Callers |-> NoIncRun]
    /\ sys = [o \in Operators |-> NoSysRun]
    /\ rt = NoRealtime /\ rtConv = NoRealtime
    /\ integrity = NoIntegrity /\ syncStatus = NoStatus

\* The caller has the result of its call and lets go of it.
Collect ==
    /\ ~Quiet
    /\ fullSync.pc # "loop" /\ convSync.pc # "loop"
    /\ \A c \in Callers : inc[c].pc # "conversations"
    /\ \A o \in Operators : sys[o].pc # "running"
    /\ fullSync' = NoRun /\ convSync' = NoConvRun
    /\ inc' = [c \in Callers |-> NoIncRun]
    /\ sys' = [o \in Operators |-> NoSysRun]
    /\ rt' = NoRealtime /\ rtConv' = NoRealtime
    /\ integrity' = NoIntegrity /\ syncStatus' = NoStatus
    /\ UNCHANGED <<now, store, lastOp, written, inv, faultsOn, customers, graph,
                   reader, updater, simReader, graphSync, hist, phase, convs,
                   worker>>

\* One caller calls the entry points one call at a time, with any fault of
\* the relational store, the graph store and the cache in each.
NextEntry ==
    \/ Quiet /\ \E b \in BatchSizes \cup BadBatchSizes, dbFault \in BOOLEAN :
                   FullStart(b, dbFault)
    \/ \E dbFault \in BOOLEAN, o \in Outcomes : FullWindow(dbFault, o)
    \/ Quiet /\ \E b \in BatchSizes \cup BadBatchSizes, dbFault \in BOOLEAN :
                   ConvFullStart(b, dbFault)
    \/ \E dbFault \in BOOLEAN, o \in ConvOutcomeSeqs : ConvWindow(dbFault, o)
    \/ Quiet /\ \E since \in Sinces("direct"), dbFault \in BOOLEAN, o \in Outcomes :
                   IncCustomers("direct", since, dbFault, o)
    \/ \E dbFault \in BOOLEAN, o \in ConvOutcomeSeqs :
          IncConversations("direct", dbFault, o)
    \/ Quiet /\ \E dbFault \in BOOLEAN, gfault \in {"none", "transport"},
                   cfault \in Faults : RealtimeCustomer(1, dbFault, gfault, cfault)
    \/ Quiet /\ \E i \in 1..MaxConvs, dbFault \in BOOLEAN, kind \in ConvFaults :
                   RealtimeConversation(i, dbFault, kind)
    \/ Quiet /\ \E dbFault \in BOOLEAN, fget \in Faults,
                   gfault \in StoreFaults, fset \in Faults :
                   ValidateIntegrity(dbFault, fget, gfault, fset)
    \/ Quiet /\ \E dbFault \in BOOLEAN, fkeys \in Faults, fget \in Faults,
                   gfault \in StoreFaults, fset \in Faults :
                   GetSyncStatus(dbFault, fkeys, fget, gfault, fset)
    \/ Quiet /\ SysStart("operator1")
    \/ \E customerFault \in DbFaults, outcome \in RecordFaults,
          conversationFault \in DbFaults, kind \in ConvFaults,
          knowledge \in KnowledgeOutcomes, f \in Faults :
          SysFinish("operator1", customerFault, outcome, conversationFault, kind,
                    knowledge, f)
    \/ Collect

SpecEntry == InitConv /\ [][NextEntry]_vars

\* C20: under any faults of the relational store, the graph store and the
\* cache, every call of an entry point of ETLService ends with a structured
\* result: the full syncs, incremental_sync and validate_sync_integrity with
\* a report or an error-carrying dict (an error when a relational read
\* failed), get_sync_status with its status, full_system_sync with its
\* results (overall_success False when it caught an exception), the real-time
\* syncs with a Boolean; a full sync that is still looping has rows left to
\* read, so it ends.
C20_NoEscape ==
    /\ fullSync.pc \in {"idle", "loop", "done"}
    /\ fullSync.pc = "done" => fullSync.result.kind \in {"report", "error"}
    /\ fullSync.dbFault # "none" => (fullSync.pc = "done" /\ fullSync.result.kind = "error")
    /\ fullSync.pc = "loop" => fullSync.offset < fullSync.total
    /\ convSync.pc \in {"idle", "loop", "done"}
    /\ convSync.pc = "done" => convSync.result.kind \in {"report", "error"}
    /\ convSync.dbFault # "none" => (convSync.pc = "done" /\ convSync.result.kind = "error")
    /\ convSync.pc = "loop" => convSync.offset < convSync.total
    /\ \A c \in Callers :
          /\ inc[c].pc \in {"idle", "conversations", "done"}
          /\ inc[c].pc = "done" => inc[c].result.kind \in {"report", "error"}
    /\ \A o \in Operators :
          /\ sys[o].pc \in {"idle", "running", "done"}
          /\ sys[o].error => (sys[o].pc = "done" /\ ~sys[o].overall_success)
    /\ integrity.kind \in {"none", "report", "error"}
    /\ syncStatus.kind \in {"none", "report", "error"}
    /\ syncStatus.kind = "report" => integrity.kind \in {"report", "error"}
    /\ rt.ret \in BOOLEAN /\ rtConv.ret \in BOOLEAN
    /\ rt.faulted => ~rt.ret

\* get_sync_status has returned its status although the relational store
\* failed under the integrity report it embeds.
C20_Witness ==
    /\ syncStatus.kind = "report"
    /\ integrity.kind = "error"
    /\ "full_sync" \in syncStatus.recommendations

----------------------------------------------------------------------------
(* Order of graph upserts. *)

\* The content of a graph without the order in which its nodes were created
\* and without the Customer nodes' updated_at.
GraphView(g) ==
    [customers |-> {CustomerView(g)[i] : i \in 1..Len(g.customers)},
     conversations |-> {g.conversations[k] : k \in 1..Len(g.conversations)},
     messages |-> {g.messages[k] : k \in 1..Len(g.messages)},
     topics |-> g.topics,
     discussed |-> g.discussed,
     resolutions |-> {g.resolutions[k] : k \in 1..Len(g.resolutions)}]

\* sync_customer_to_graph(customer) and then sync_conversation_to_graph(conv),
\* no statement failing.
CustomerThenConversation(g, s, t, customer, conv) ==
    sync_conversation_to_graph(
        sync_customer_to_graph(g, s, t, customer, "none", "none").graph,
        conv, conv.messages, {}).graph

\* sync_conversation_to_graph(conv) and then sync_customer_to_graph(customer).
ConversationThenCustomer(g, s, t, customer, conv) ==
    sync_customer_to_graph(
        sync_conversation_to_graph(g, conv, conv.messages, {}).graph,
        s, t, customer, "none", "none").graph

\* C21: from every reachable graph, for every conversation row and the row
\* of the customer that owns it, syncing the customer and then the
\* conversation leaves the same graph content as syncing the conversation
\* and then the customer.
C21_UpsertsCommute ==
    \A k \in 1..Len(convs), i \in 1..Len(customers) :
        customers[i].id = convs[k].customer_id =>
            GraphView(CustomerThenConversation(graph, store, now, customers[i], convs[k]))
              = GraphView(ConversationThenCustomer(graph, store, now, customers[i],
                                                   convs[k]))

----------------------------------------------------------------------------
(* The ETL worker process (etl_worker/main.py) and the scheduler loop
   ETLService.schedule_automatic_sync.  A task runs from one await to the
   next; stop() runs only while both tasks are suspended in an await. *)

WorkerFrame == UNCHANGED <<lastOp, written, inv, faultsOn, reader, updater,
                           simReader, graphSync, hist, fullSync, rt, phase,
                           convSync, rtConv>>

\* `while self.running:` at the top of a loop: the next sleep, or the end of
\* the loop with the condition False in place of self.running.
Top_exits(w) == "exited"

\* `while self.running:` at the top of a loop: the next sleep, or the end of
\* the loop.
Top(w) == IF w.running THEN "sleep" ELSE "exited"

\* A task that is suspended in an await or has ended.
LoopSuspended ==
    \/ worker.loop \in {"idle", "delay", "sleep", "retry", "exited", "cancelled"}
    \/ worker.loop = "call" /\ worker.inflight # "none"

\* ETLWorker.start(): self.running = True, the two tasks are created.
WorkerStart ==
    /\ worker.loop = "idle" /\ ~worker.stopped
    /\ worker' = [worker EXCEPT !.running = TRUE, !.kb = "initial", !.loop = "delay"]
    /\ UNCHANGED <<now, store, graph, customers, convs, inc, sys, integrity, syncStatus>>
    /\ WorkerFrame

\* _incremental_sync_loop: `await asyncio.sleep(60)` before the loop returns.
LoopDelayEnds ==
    /\ worker.loop = "delay" /\ ~worker.loopCancel
    /\ worker' = [worker EXCEPT !.loop = Top(worker)]
    /\ UNCHANGED <<now, store, graph, customers, convs, inc, sys, integrity, syncStatus>>
    /\ WorkerFrame

\* `await asyncio.sleep(10 * 60)` returns; `if not self.running: break`;
\* etl_service.incremental_sync() is called.
LoopWake ==
    /\ worker.loop = "sleep" /\ ~worker.loopCancel
    /\ IF ~worker.running
       THEN /\ worker' = [worker EXCEPT !.loop = "exited"]
            /\ UNCHANGED inc
       ELSE /\ worker' = [worker EXCEPT !.loop = "call", !.failed = FALSE,
                                        !.lateStart = @ \/ worker.stopped]
            /\ inc' = [inc EXCEPT !["worker"] = NoIncRun]
    /\ UNCHANGED <<now, store, graph, customers, convs, sys, integrity, syncStatus>>
    /\ WorkerFrame

\* incremental_sync() of the worker up to `if recent_customers:`.
WorkerRead(dbFault) ==
    LET from == DefaultSince(PyNone, now)
        rows == RecentCustomers(customers, from)
    IN
    /\ worker.loop = "call" /\ inc["worker"].pc = "idle"
    /\ IF dbFault
       THEN /\ inc' = [inc EXCEPT !["worker"] =
                          [NoIncRun EXCEPT !.pc = "done", !.since = from,
                                           !.result = IncErrorReport, !.clean = FALSE]]
            /\ UNCHANGED worker
       ELSE /\ inc' = [inc EXCEPT !["worker"] =
                          [NoIncRun EXCEPT
                             !.pc = IF rows = <<>> THEN "conversations" ELSE "customers",
                             !.since = from, !.customers = Ids(rows)]]
            /\ worker' = [worker EXCEPT !.pending = rows, !.synced = 0]
    /\ UNCHANGED <<now, store, graph, customers, convs, sys, integrity, syncStatus>>
    /\ WorkerFrame

\* The awaited incremental_sync() raises with the handler that ends the loop.
WorkerRaise_exits ==
    /\ worker.loop = "call" /\ inc["worker"].pc = "idle"
    /\ worker' = [worker EXCEPT !.loop = "exited", !.failed = TRUE]
    /\ UNCHANGED <<now, store, graph, customers, convs, inc, sys, integrity, syncStatus>>
    /\ WorkerFrame

\* The awaited incremental_sync() raises an Exception (one raised before its
\* try): `except Exception as e: ...; await asyncio.sleep(60)`.
WorkerRaise ==
    /\ worker.loop = "call" /\ inc["worker"].pc = "idle"
    /\ worker' = [worker EXCEPT !.loop = "retry", !.failed = TRUE]
    /\ UNCHANGED <<now, store, graph, customers, convs, inc, sys, integrity, syncStatus>>
    /\ WorkerFrame

\* _sync_customer_batch, the record in hand: sync_customer_to_graph issues the
\* MERGE (a blocking call) and awaits invalidate_customer_graph_cache.
WorkerMerge(gfault) ==
    LET q == execute_query(graph,
                 CypherMergeCustomer(graph, CustomerParams(Head(worker.pending)), now),
                 gfault)
    IN
    /\ worker.loop = "call" /\ inc["worker"].pc = "customers"
    /\ worker.inflight = "none" /\ worker.pending # <<>>
    /\ graph' = q.graph
    /\ worker' = [worker EXCEPT !.merged = Len(q.records) > 0, !.inflight = "cache"]
    /\ UNCHANGED <<now, store, customers, convs, inc, sys, integrity, syncStatus>>
    /\ WorkerFrame

\* The awaited invalidation returns: the record is counted; after the last
\* record `sync_stats["customers_synced"] = batch_result["synced"]`.
WorkerCacheDone(cfault) ==
    LET c == RedisClient_invalidate_pattern(store, GraphPattern(Head(worker.pending).id),
                                            cfault, "none")
        synced == worker.synced + (IF worker.merged THEN 1 ELSE 0)
        rest == Tail(worker.pending)
    IN
    /\ worker.loop = "call" /\ worker.inflight = "cache" /\ ~worker.loopCancel
    /\ store' = c.store
    /\ worker' = [worker EXCEPT !.pending = rest, !.synced = synced,
                                !.inflight = "none"]
    /\ inc' = [inc EXCEPT
                 !["worker"].clean = @ /\ worker.merged,
                 !["worker"].pc = IF rest = <<>> THEN "conversations" ELSE @,
                 !["worker"].result.customers_synced = synced]
    /\ UNCHANGED <<now, graph, customers, convs, sys, integrity, syncStatus>>
    /\ WorkerFrame

\* incremental_sync() of the worker from its second read to its return.
WorkerConversations(dbFault, outcomes) ==
    /\ worker.loop = "call"
    /\ IncConversations("worker", dbFault, outcomes)

\* `result = await etl_service.incremental_sync()` has its result: it is
\* logged and the loop goes to its top.
LoopResult ==
    /\ worker.loop = "call" /\ inc["worker"].pc = "done"
    /\ worker' = [worker EXCEPT !.loop = Top(worker),
                                !.failed = inc["worker"].result.kind = "error"]
    /\ UNCHANGED <<now, store, graph, customers, convs, inc, sys, integrity, syncStatus>>
    /\ WorkerFrame

\* `await asyncio.sleep(60)` of the handler returns.
LoopRetryEnds ==
    /\ worker.loop = "retry" /\ ~worker.loopCancel
    /\ worker' = [worker EXCEPT !.loop = Top(worker)]
    /\ UNCHANGED <<now, store, graph, customers, convs, inc, sys, integrity, syncStatus>>
    /\ WorkerFrame

\* The cancellation requested by stop() reaches the incremental task at the
\* await it is suspended in: asyncio.CancelledError is raised there.  Inside
\* the try it is caught by `except asyncio.CancelledError: break`; outside
\* (the first sleep, the sleep of the handler) it ends the task.  No
\* `except Exception` on the way catches it.
LoopCancelled ==
    /\ worker.loopCancel
    /\ worker.loop \in {"delay", "sleep", "retry", "call"}
    /\ worker.loop = "call" => worker.inflight # "none"
    /\ worker' = [worker EXCEPT
                    !.loopCancel = FALSE,
                    !.loop = IF worker.loop \in {"delay", "retry"} THEN "cancelled"
                             ELSE "exited",
                    !.interrupted = @ \/ worker.inflight # "none",
                    !.inflight = "none", !.pending = <<>>]
    /\ inc' = IF worker.loop = "call"
              THEN [inc EXCEPT !["worker"].pc = "cancelled", !["worker"].clean = FALSE]
              ELSE inc
    /\ UNCHANGED <<now, store, graph, customers, convs, sys, integrity, syncStatus>>
    /\ WorkerFrame

\* _knowledge_base_sync_loop: the initial sync_knowledge_base() returns or
\* raises into `except Exception`; then `while self.running:`.
KbInitialDone(outcome) ==
    /\ worker.kb = "initial" /\ ~worker.kbCancel
    /\ worker' = [worker EXCEPT !.kb = Top(worker)]
    /\ UNCHANGED <<now, store, graph, customers, convs, inc, sys, integrity, syncStatus>>
    /\ WorkerFrame

\* `await asyncio.sleep(30 * 60)` returns; `if not self.running: break`;
\* sync_knowledge_base() is called.
KbWake ==
    /\ worker.kb = "sleep" /\ ~worker.kbCancel
    /\ worker' = [worker EXCEPT !.kb = IF worker.running THEN "call" ELSE "exited",
                                !.lateStart = @ \/ (worker.running /\ worker.stopped)]
    /\ UNCHANGED <<now, store, graph, customers, convs, inc, sys, integrity, syncStatus>>
    /\ WorkerFrame

\* The periodic sync_knowledge_base() returns or raises.
KbCallDone(outcome) ==
    /\ worker.kb = "call" /\ ~worker.kbCancel
    /\ worker' = [worker EXCEPT !.kb = IF outcome = "raise" THEN "retry"
                                       ELSE Top(worker)]
    /\ UNCHANGED <<now, store, graph, customers, convs, inc, sys, integrity, syncStatus>>
    /\ WorkerFrame

KbRetryEnds ==
    /\ worker.kb = "retry" /\ ~worker.kbCancel
    /\ worker' = [worker EXCEPT !.kb = Top(worker)]
    /\ UNCHANGED <<now, store, graph, customers, convs, inc, sys, integrity, syncStatus>>
    /\ WorkerFrame

\* The cancellation reaches the knowledge task at its await.
KbCancelled ==
    /\ worker.kbCancel
    /\ worker.kb \in {"initial", "sleep", "call", "retry"}
    /\ worker' = [worker EXCEPT
                    !.kbCancel = FALSE,
                    !.kb = IF worker.kb \in {"initial", "retry"} THEN "cancelled"
                           ELSE "exited"]
    /\ UNCHANGED <<now, store, graph, customers, convs, inc, sys, integrity, syncStatus>>
    /\ WorkerFrame

\* ETLWorker.stop() up to its await: self.running = False and task.cancel()
\* for each task.
WorkerStop ==
    /\ worker.running /\ ~worker.stopped
    /\ LoopSuspended
    /\ worker' = [worker EXCEPT
                    !.running = FALSE, !.stopped = TRUE,
                    !.loopCancel = worker.loop \notin {"exited", "cancelled"},
                    !.kbCancel = worker.kb \notin {"exited", "cancelled"}]
    /\ UNCHANGED <<now, store, graph, customers, convs, inc, sys, integrity, syncStatus>>
    /\ WorkerFrame

\* POST /customers: CustomerService.create_customer adds the row (updated_at
\* is set only by an UPDATE) and caches the session; no sync is called.
CreateCustomer ==
    LET i == Len(customers) + 1
        row == Row(i, <<"s">> \o StrInt(i), 0)
    IN
    /\ i <= MaxIncRows
    /\ customers' = Append(customers, row)
    /\ store' = cache_customer_session(store, now, row.session_id, customer_dict(row),
                                       "none").store
    /\ UNCHANGED <<now, graph, convs, inc, sys, integrity, syncStatus, worker>>
    /\ WorkerFrame

\* A step of the incremental task.
LoopStep ==
    \/ LoopDelayEnds
    \/ LoopWake
    \/ \E dbFault \in BOOLEAN : WorkerRead(dbFault)
    \/ WorkerRaise
    \/ \E gfault \in StoreFaults : WorkerMerge(gfault)
    \/ \E cfault \in StoreFaults : WorkerCacheDone(cfault)
    \/ \E dbFault \in BOOLEAN, o \in NoFaults : WorkerConversations(dbFault, o)
    \/ LoopResult
    \/ LoopRetryEnds
    \/ LoopCancelled

\* A step of the knowledge task.
KbStep ==
    \/ \E outcome \in KnowledgeOutcomes : KbInitialDone(outcome)
    \/ KbWake
    \/ \E outcome \in KnowledgeOutcomes : KbCallDone(outcome)
    \/ KbRetryEnds
    \/ KbCancelled

\* A step of schedule_automatic_sync: its sleep ends and incremental_sync()
\* runs, then the checkpoint key is written.
SchedulerStep ==
    \/ \E dbFault \in BOOLEAN, o \in NoFaults :
          IncCustomers("scheduler", PyNone, dbFault, o)
    \/ \E dbFault \in BOOLEAN, o \in NoFaults : IncConversations("scheduler", dbFault, o)
    \/ \E f \in StoreFaults : IncStamp(f)

NextWorker ==
    \/ WorkerStart
    \/ LoopStep
    \/ KbStep
    \/ WorkerStop
    \/ SchedulerStep
    \/ \E a \in AttrValues : ChangeRow(1, a)

\* The worker not started, one customer, at most one conversation row,
\* nothing projected.
InitWorker ==
    /\ now = 0 /\ store = <<>> /\ lastOp = NoOp /\ written = <<>> /\ inv = NoInv
    /\ faultsOn = FALSE
    /\ customers = <<Row(1, <<"s", "1">>, 0)>>
    /\ graph = EmptyGraph
    /\ reader = Call("idle")
    /\ updater = Call("idle")
    /\ simReader = Call("idle")
    /\ graphSync = [Call("idle") EXCEPT !.held = {}]
    /\ hist = [dbEpoch |-> 0, dbReturned |-> 0, gEpoch |-> 0, gReturned |-> 0,
               merges |-> 0, origin |-> <<>>]
    /\ InitRuns
    /\ \E n \in 0..1 : convs = [i \in 1..n |-> ConvShape(i)]

\* The event loop runs each task that can run, the process started is
\* started, and the scheduler loop is running.
SpecWorker ==
    /\ InitWorker /\ [][NextWorker]_vars
    /\ WF_vars(WorkerStart) /\ WF_vars(LoopStep) /\ WF_vars(KbStep)
    /\ WF_vars(SchedulerStep)

\* C22: the incremental loop of the worker ends only after stop(), and after
\* a run that ended in an error result or an exception another run is
\* started unless stop() is called; the loop of schedule_automatic_sync goes
\* back to its sleep after a failed run and starts another run.
C22_LoopStaysAvailable ==
    /\ [](worker.loop \in {"exited", "cancelled"} => worker.stopped)
    /\ worker.failed ~> (worker.loop = "call" \/ worker.stopped)
    /\ (inc["scheduler"].pc = "done" /\ inc["scheduler"].result.kind = "error")
          ~> (inc["scheduler"].pc = "idle")
    /\ (inc["scheduler"].pc = "idle") ~> (inc["scheduler"].pc # "idle")

\* A run of the worker has ended in an error result, the loop is back in its
\* sleep, and stop() has not been called.
C22_Witness ==
    /\ worker.failed /\ worker.loop = "sleep" /\ ~worker.stopped
    /\ inc["worker"].result.kind = "error"

\* C23: no network call of a run was cut short by the cancellation of
\* stop(), and no run was started after stop() was called.
C23_GracefulStop ==
    ~worker.interrupted /\ ~worker.lateStart

----------------------------------------------------------------------------
(* The worker alone, every store reachable, customers created and updated
   while it runs. *)

\* A step of the incremental task with no fault and no stop().
ConvergeStep ==
    \/ LoopDelayEnds
    \/ LoopWake
    \/ WorkerRead(FALSE)
    \/ WorkerMerge("none")
    \/ WorkerCacheDone("none")
    \/ \E o \in NoFaults : WorkerConversations(FALSE, o)
    \/ LoopResult

NextConverge ==
    \/ WorkerStart
    \/ ConvergeStep
    \/ CreateCustomer
    \/ \E i \in 1..MaxIncRows, a \in AttrValues : ChangeRow(i, a)
    \/ Tick

\* The worker not started, the relational store and the graph empty.
InitConverge ==
    /\ now = 0 /\ store = <<>> /\ lastOp = NoOp /\ written = <<>> /\ inv = NoInv
    /\ faultsOn = FALSE
    /\ customers = <<>>
    /\ graph = EmptyGraph
    /\ reader = Call("idle")
    /\ updater = Call("idle")
    /\ simReader = Call("idle")
    /\ graphSync = [Call("idle") EXCEPT !.held = {}]
    /\ hist = [dbEpoch |-> 0, dbReturned |-> 0, gEpoch |-> 0, gReturned |-> 0,
               merges |-> 0, origin |-> <<>>]
    /\ InitRuns
    /\ convs = <<>>

\* The worker is started and its incremental loop keeps running.
SpecConverge ==
    /\ InitConverge /\ [][NextConverge]_vars
    /\ WF_vars(WorkerStart) /\ WF_vars(ConvergeStep)

\* C25: every customer row in the relational store eventually has a
\* Customer node in the graph.
C25_EventualNode ==
    \A i \in 1..MaxIncRows :
        (Len(customers) >= i) ~> (NodesOf(graph, i) # {})

----------------------------------------------------------------------------
(* Cache hits of find_similar_customers. *)

\* C30: a call of find_similar_customers that got an answer from the cache
\* and is on its way to query the graph store found no entry
\* graph:similar_customers:{id}: while the entry is there, a call is answered
\* from it (only this reader writes the entry, so an entry present after
\* the get was present at the get).
C30_CachedAnswer ==
    (simReader.pc = "miss" /\ ~simReader.cacheFault)
        => GraphKey(SIMILAR, AsideId) \notin DOMAIN store

----------------------------------------------------------------------------
(* The writers of the cache and the time to live each gives its entries:
   the helpers of CacheService and the query methods of GraphService that
   call self.cache.redis.set themselves. *)

SUCCESS_PATTERNS_TTL == 3600
CONVERSATION_FLOWS_TTL == 7200

\* hashlib.md5(query.encode()).hexdigest(), for the texts the callers hash.
hash_query(text) ==
    CASE text = <<"q">> -> "7694f4a66316e53c8cdd9d9954bd611d"
      [] text = <<"vip", ":", "q", ":", "c">> -> "280cbd7f63c79fa46f6b514be31de295"

\* f"docs:search:{query_hash}"
DocsKey(query) == <<"docs", ":", "search", ":", hash_query(query)>>

\* f"llm:response:{response_hash}" of f"{classification}:{query}:{context_summary}"
LlmKey(classification, query, context_summary) ==
    <<"llm", ":", "response", ":",
      hash_query(classification \o <<":">> \o query \o <<":">> \o context_summary)>>

\* f"conversation_flows:{customer_type or 'all'}"
FlowsKey(customer_type) ==
    <<"conversation_flows", ":">>
        \o (IF Truthy(customer_type) THEN customer_type.v ELSE <<"all">>)

cache_document_search(s, t, query, results, fault) ==
    RedisClient_set(s, t, DocsKey(query), results, PyInt(DOCUMENT_SEARCH_TTL), fault)

\* cached_data is a dict of the response and the three inputs.
cache_llm_response(s, t, classification, query, context_summary, response, fault) ==
    RedisClient_set(s, t, LlmKey(classification, query, context_summary),
                    PyList(<<PyStr(response), PyStr(classification), PyStr(query),
                             PyStr(context_summary)>>),
                    PyInt(LLM_RESPONSE_TTL), fault)

\* cached_similar[:limit]
Slice(xs, limit) == PyList(SubSeq(xs.v, 1, Min(limit, Len(xs.v))))

\* The rest of find_similar_customers after a miss: the records are cached
\* and returned.
similar_fill(s, t, customer_id, records, fset) ==
    [store |-> cache_graph_results(s, t, customer_id, SIMILAR, PyList(records),
                                   fset).store,
     ret |-> PyList(records)]

\* find_similar_customers(customer_id, limit) from call to return.
find_similar_customers(g, s, t, customer_id, limit, cached, gfault, fset) ==
    IF Truthy(cached) THEN [store |-> s, ret |-> Slice(cached, limit)]
    ELSE similar_fill(s, t, customer_id,
                      execute_query(g, CypherSimilarCustomers(g, customer_id),
                                    gfault).records,
                      fset)

\* MATCH (c:Customer)-[:HAD_CONVERSATION]->(conv)-[:RESOLVED_WITH]->(resolution)
\* WHERE c.customer_id IN $customer_ids AND conv.satisfaction_rating >= 4
\* RETURN strategy, ...: the strategies found.
CypherSuccessPatterns(g, customer_ids) ==
    LET Good(r) == \E k \in ConvsOf(g, r.conversation_id) :
                      /\ g.conversations[k].customer_id \in customer_ids
                      /\ g.conversations[k].satisfaction_rating.t = "int"
                      /\ g.conversations[k].satisfaction_rating.v >= 4
        found == SelectSeq(g.resolutions, Good)
    IN [graph |-> g, records |-> [i \in 1..Len(found) |-> found[i].strategy]]

\* The rest of find_customer_success_patterns once similar_customers is
\* known: nothing is cached when it is empty, else success_data is cached
\* for an hour.
success_fill(g, t, customer_id, similar, gfault, fset) ==
    IF ~Truthy(similar.ret) THEN [store |-> similar.store, ret |-> PyList(<<>>)]
    ELSE [store |->
            RedisClient_set(similar.store, t, SuccessKey(customer_id),
                PyList(<<PyList(execute_query(g,
                             CypherSuccessPatterns(g,
                                 {similar.ret.v[i].v[1].v : i \in 1..Len(similar.ret.v)}),
                             gfault).records),
                         PyInt(Len(similar.ret.v))>>),
                PyInt(SUCCESS_PATTERNS_TTL), fset).store,
          ret |-> similar.ret]

\* find_customer_success_patterns(customer_id) from call to return.
find_customer_success_patterns(g, s, t, customer_id, fget, gfault, fset) ==
    IF Truthy(RedisClient_get(s, SuccessKey(customer_id), fget).ret)
    THEN [store |-> s, ret |-> RedisClient_get(s, SuccessKey(customer_id), fget).ret]
    ELSE success_fill(g, t, customer_id,
                      find_similar_customers(g, s, t, customer_id, 10,
                          get_cached_graph_results(s, customer_id, SIMILAR, fget).ret,
                          gfault, fset),
                      gfault, fset)

\* analyze_conversation_flows(customer_type) from call to return; flows is
\* the dict built from the records of the query (never empty: it has its
\* three keys), cached for two hours.
analyze_conversation_flows(s, t, customer_type, flows, fget, fset) ==
    IF Truthy(RedisClient_get(s, FlowsKey(customer_type), fget).ret) THEN s
    ELSE RedisClient_set(s, t, FlowsKey(customer_type), flows,
                         PyInt(CONVERSATION_FLOWS_TTL), fset).store

\* History: for each entry of the store, the time it was last set at.
SetAt(w, old, new, t) ==
    [k \in DOMAIN new |->
        IF k \in DOMAIN old /\ old[k] = new[k] /\ k \in DOMAIN w THEN w[k] ELSE t]

\* A writer ran and left the store s.
Wrote(s, op) ==
    /\ store' = s
    /\ written' = SetAt(written, store, s, now)
    /\ lastOp' = Op(op, <<>>, "none", FALSE, FALSE)
    /\ UNCHANGED now
    /\ KVFrame

TtlSession(i, f) ==
    /\ i \in 1..Len(customers)
    /\ Wrote(cache_customer_session(store, now, customers[i].session_id,
                                    customer_dict(customers[i]), f).store, "session")

TtlDocs(results, f) ==
    Wrote(cache_document_search(store, now, <<"q">>, results, f).store, "docs")

TtlLlm(f) ==
    Wrote(cache_llm_response(store, now, <<"vip">>, <<"q">>, <<"c">>, <<"r">>, f).store,
          "llm")

TtlSimilar(i, limit, fget, gfault, fset) ==
    Wrote(find_similar_customers(graph, store, now, i, limit,
              get_cached_graph_results(store, i, SIMILAR, fget).ret, gfault,
              fset).store, "similar")

TtlSuccess(i, fget, gfault, fset) ==
    Wrote(find_customer_success_patterns(graph, store, now, i, fget, gfault,
                                         fset).store, "success")

TtlFlows(customer_type, flows, fget, fset) ==
    Wrote(analyze_conversation_flows(store, now, customer_type, flows, fget, fset),
          "flows")

\* The flows dict of one successful pattern.
FlowResult == PyList(<<PyList(<<PyInt(2)>>), PyList(<<>>), PyList(<<PyInt(1)>>)>>)

NextTtl ==
    \/ \E f \in StoreFaults : TtlSession(1, f)
    \/ \E f \in StoreFaults : TtlDocs(PyList(<<PyInt(1)>>), f)
    \/ \E f \in StoreFaults : TtlLlm(f)
    \/ \E limit \in {1, 5}, fget \in StoreFaults, gfault \in StoreFaults,
          fset \in StoreFaults : TtlSimilar(1, limit, fget, gfault, fset)
    \/ \E fget \in StoreFaults, gfault \in StoreFaults, fset \in StoreFaults :
          TtlSuccess(1, fget, gfault, fset)
    \/ \E ct \in {PyNone, PyStr(<<"vip">>)}, fget \in StoreFaults,
          fset \in StoreFaults : TtlFlows(ct, FlowResult, fget, fset)
    \/ Tick

\* Two customers in both stores, the cache empty.
SpecTtl == InitKV /\ [][NextTtl]_vars

\* The cache domain a key belongs to: the four namespaces of CacheService;
\* the results of graph queries that GraphService caches under its own
\* prefixes belong to the graph results.
Domain(key) ==
    CASE key[1] = "customer" -> "customer:session"
      [] key[1] = "docs" -> "docs:search"
      [] key[1] = "llm" -> "llm:response"
      [] key[1] \in {"graph", "success_patterns", "conversation_flows"} -> "graph"

NamespaceTTL(domain) ==
    CASE domain = "customer:session" -> CUSTOMER_SESSION_TTL
      [] domain = "docs:search" -> DOCUMENT_SEARCH_TTL
      [] domain = "llm:response" -> LLM_RESPONSE_TTL
      [] domain = "graph" -> GRAPH_RESULTS_TTL

\* C24: every entry of the cache was stored with the time to live of its
\* domain.
C24_NamespaceTTL ==
    \A k \in DOMAIN store : store[k].exp - written[k] = NamespaceTTL(Domain(k))

----------------------------------------------------------------------------
(* Other clients of the relational store commit inserts and deletes of
   customers while a full synchronisation pages through the table. *)

MaxInserts == 1

\* The table without its row at position p.
WithoutRow(table, p) == SubSeq(table, 1, p - 1) \o SubSeq(table, p + 1, Len(table))

\* The largest number of a non-empty finite set.
Largest(xs) == CHOOSE m \in xs : \A x \in xs : x <= m

\* The id the customers_id_seq sequence hands out next: above every id of the
\* table and of the rows the running synchronisation counted.
NextSerial(table, counted) ==
    1 + Largest({counted} \cup {table[i].id : i \in 1..Len(table)})

\* INSERT INTO customers, committed: the new row comes last in the scan.
InsertRow ==
    /\ NextSerial(customers, fullSync.total) <= MaxRows + MaxInserts
    /\ customers' = Append(customers,
                           Row(NextSerial(customers, fullSync.total),
                               <<"s">> \o StrInt(NextSerial(customers, fullSync.total)),
                               0))
    /\ fullSync' = IF fullSync.pc = "loop" THEN [fullSync EXCEPT !.dirty = TRUE]
                   ELSE fullSync
    /\ phase' = [s |-> "none", id |-> 0]
    /\ UNCHANGED <<store, graph, rt, hist>>
    /\ SyncFrame

\* DELETE FROM customers WHERE id = the id of the row at position p,
\* committed: the rows after it move up by one in the scan.
DeleteRow(p) ==
    /\ p \in 1..Len(customers)
    /\ customers' = WithoutRow(customers, p)
    /\ fullSync' = IF fullSync.pc = "loop" THEN [fullSync EXCEPT !.dirty = TRUE]
                   ELSE fullSync
    /\ phase' = [s |-> "none", id |-> 0]
    /\ UNCHANGED <<store, graph, rt, hist>>
    /\ SyncFrame

\* Every record of a batch is projected without a fault.
AllOk == { [i \in 1..n |-> "ok"] : n \in 0..MaxBatch }

NextPaging ==
    \/ \E b \in BatchSizes : FullStart(b, FALSE)
    \/ \E o \in AllOk : FullWindow(FALSE, o)
    \/ InsertRow
    \/ \E p \in 1..MaxRows + MaxInserts : DeleteRow(p)

SpecPaging == InitSync /\ [][NextPaging]_vars

\* C26: when a full synchronisation of the customers has completed without a
\* failure, every row that it counted at its start and that is still in the
\* table has been projected.
C26_FullCoverage ==
    (fullSync.pc = "done" /\ fullSync.result.completed /\ fullSync.result.failed = 0)
        => \A i \in 1..Len(customers) :
              customers[i].id <= fullSync.total
                  => NodesOf(graph, customers[i].id) # {}

----------------------------------------------------------------------------
(* A conversation is ended, again with another resolution or rating, and
   projected after each change. *)

\* The rows of table with conversation id resolved with resolution and rating.
EndRow(table, id, resolution, rating) ==
    [i \in 1..Len(table) |->
        IF table[i].id = id
        THEN [table[i] EXCEPT !.status = "resolved", !.resolution = resolution,
                              !.satisfaction_rating = rating]
        ELSE table[i]]

\* MemoryService.end_conversation(conversation_id, resolution, rating, db):
\* the update of the row and its commit.
EndConversation(id, resolution, rating) ==
    /\ SelectById(convs, id).found
    /\ convs' = EndRow(convs, id, resolution, rating)
    /\ UNCHANGED <<graph, convSync, rtConv>>
    /\ UNCHANGED <<now, store, lastOp, written, inv, faultsOn, customers,
                   reader, updater, simReader, graphSync, hist,
                   fullSync, rt, phase, engineVars>>

Resolutions == {STRATEGY, PyStr(<<"w">>)}
Ratings == {PyInt(4), PyInt(5)}

NextResync ==
    \/ RealtimeCustomer(1, FALSE, "none", "none")
    \/ \E i \in 1..MaxConvs : RealtimeConversation(i, FALSE, "ok")
    \/ \E text \in Resolutions, rating \in Ratings : EndConversation(1, text, rating)

SpecResync == InitConv /\ [][NextResync]_vars

\* The DISCUSSED edges, the RESOLVED_WITH edges and the Resolution nodes of a
\* conversation.
Outcome_view(g, conversation_id) ==
    [discussed |-> {e \in g.discussed : e[1] = conversation_id},
     resolutions |-> {g.resolutions[k] : k \in ResolutionsOf(g, conversation_id)}]

\* The graph with its Customer nodes alone.
CustomersOnly(g) == [EmptyGraph EXCEPT !.customers = g.customers]

\* C27: projecting a conversation that the graph already holds leaves the
\* same DISCUSSED edges, RESOLVED_WITH edge and Resolution node as projecting
\* its current row into a graph that never held it.
C27_ResyncConverges ==
    \A k \in 1..Len(convs) :
        ConvsOf(graph, convs[k].id) # {}
           => Outcome_view(sync_conversation_to_graph(graph, convs[k],
                                                      convs[k].messages, {}).graph,
                           convs[k].id)
              = Outcome_view(sync_conversation_to_graph(CustomersOnly(graph), convs[k],
                                                        convs[k].messages, {}).graph,
                             convs[k].id)

----------------------------------------------------------------------------
(* The integrity report after the two full synchronisations, customers
   first, with every store available and the relational store unchanged. *)

ConvAllOk == { [i \in 1..n |-> "ok"] : n \in 0..MaxBatch }

NextAudit ==
    \/ \E b \in BatchSizes : convSync.pc = "idle" /\ FullStart(b, FALSE)
    \/ \E o \in AllOk : FullWindow(FALSE, o)
    \/ \E b \in BatchSizes : fullSync.pc = "done" /\ ConvFullStart(b, FALSE)
    \/ \E o \in ConvAllOk : ConvWindow(FALSE, o)
    \/ ValidateIntegrity(FALSE, "none", "none", "none")
    \/ Tick

SpecAudit == InitConv /\ [][NextAudit]_vars

\* Both runs have completed with no failure, and the report at hand was
\* computed from the graph as it is now.
FreshAudit ==
    /\ fullSync.pc = "done" /\ fullSync.result.completed /\ fullSync.result.failed = 0
    /\ convSync.pc = "done" /\ convSync.result.completed /\ convSync.result.failed = 0
    /\ integrity.kind = "report"
    /\ integrity.neo4j_counts = integrity.live
    /\ integrity.live = LiveCounts(graph)

\* C28: after full_sync_customers and then full_sync_conversations completed
\* without a failure, a fresh integrity report gives 100 percent for the
\* customers, the conversations and the messages, and recommends nothing.
C28_FullSyncIsComplete ==
    FreshAudit => /\ \A e \in EntityKinds : integrity.percentages[e] = 10000
                  /\ integrity.recommendations = {}

----------------------------------------------------------------------------
(* Integrity reports while customers are inserted, deleted and projected. *)

NextChurn ==
    \/ \E i \in 1..MaxRows : RealtimeCustomer(i, FALSE, "none", "none")
    \/ InsertRow
    \/ DeleteRow(1)
    \/ ValidateIntegrity(FALSE, "none", "none", "none")

SpecChurn == InitSync /\ [][NextChurn]_vars

\* C29: every percentage of an integrity report lies between 0 and 100.
C29_PercentageInRange ==
    integrity.kind = "report"
        => \A e \in EntityKinds :
              integrity.percentages[e] >= 0 /\ integrity.percentages[e] <= 10000

====
